---- MODULE Spec2Model ----
(***************************************************************************)
(* A model of the naming-convention dispatch engine of cucm-soap-rest:     *)
(* the method mapper (utils/method-mapper.ts), the route registrar and the *)
(* documentation model (createDynamicRoutes, addPathToSwagger, the         *)
(* refresh-examples handler), the request transformer and executor         *)
(* (executeAxlOperation) and the template processor                        *)
(* (processTemplateVariables).                                             *)
(*                                                                         *)
(* Strings the code inspects character by character (operation names,      *)
(* route segments, template strings) are sequences of one-character        *)
(* strings.  JSON values are tagged records: Str(s) for a string, Obj(f)   *)
(* for an object (f a function from keys to JSON values), Null.            *)
(***************************************************************************)
EXTENDS Naturals, Sequences, FiniteSets, TLC

VARIABLES
  clsOp,          \* the operation name last handed to the method mapper
  clsMap,         \* the MethodMapping it returned
  clsTag,         \* the wrapper tag getResourceTagFromMethod returned for it
  catalog,        \* what axlClient.returnOperations() yields at startup
  allOperations,  \* createDynamicRoutes' allOperations
  appRoutes,      \* Express' route stack: the operation routes, in order
  swaggerPaths,   \* swaggerSpec.paths, as a set of (path, verb, operation)
  phase,          \* "boot" | "listening" | "up": createDynamicRoutes' progress
  hit,            \* the last routed request and the operation it reached
  req,            \* the request executeAxlOperation is handling
  pc,             \* its position: idle, check, tags, fresh, shape, invoked, done
  tags,           \* its local variable tags
  sent,           \* the (method, arguments) pairs passed to executeOperation
  backendCalls,   \* the backend calls made for the request, in order
  res,            \* the HTTP response sent (status 0 while none is)
  nextErr,        \* the error handed to next() (statusCode 0 while none is)
  axl,            \* what the backend answered to this request's calls
  apiKeyConfig,   \* api-key.middleware.ts: apiKeyConfig and NODE_ENV
  authReq,        \* the request checkApiKey was called with
  authNext,       \* how many times it called next()
  authRes,        \* the response it sent (status 0 while none is)
  refreshes,      \* the refresh-examples handlers waiting at their await
  docsRead,       \* what the last GET /api-docs.json was answered with
  now,            \* Date.now(), in minutes
  axlConfigured,  \* axlConfig has host, user and pass
  isAuthenticated, \* auth.middleware.ts: isAuthenticated
  authError,      \* auth.middleware.ts: authError ("null" while it is null)
  lastCheckTime,  \* auth.middleware.ts: lastCheckTime
  timerDue,       \* when the setInterval callback is next due (0: not armed)
  checks,         \* the calls waiting for testAuthentication, oldest first
  lastCall,       \* the path the last checkAuthentication call took
  callBit,        \* flips at every call of checkAuthentication
  gate            \* how requireAuth let the last request through

vars == <<clsOp, clsMap, clsTag, catalog, allOperations, appRoutes, swaggerPaths,
          phase, hit, req, pc, tags, sent, backendCalls, res, nextErr, axl,
          apiKeyConfig, authReq, authNext, authRes, refreshes, docsRead,
          now, axlConfigured, isAuthenticated, authError, lastCheckTime,
          timerDue, checks, lastCall, callBit, gate>>

classifyVars == <<clsOp, clsMap, clsTag>>
routeVars == <<catalog, allOperations, appRoutes, swaggerPaths, phase, hit>>
execVars == <<req, pc, tags, sent, backendCalls, res, nextErr, axl>>
authVars == <<apiKeyConfig, authReq, authNext, authRes>>
docVars == <<refreshes, docsRead>>
sessionVars == <<now, axlConfigured, isAuthenticated, authError, lastCheckTime,
                 timerDue, checks, lastCall, callBit, gate>>

----------------------------------------------------------------------------
(* Characters and strings *)

UpperChars == <<"A","B","C","D","E","F","G","H","I","J","K","L","M",
                "N","O","P","Q","R","S","T","U","V","W","X","Y","Z">>
LowerChars == <<"a","b","c","d","e","f","g","h","i","j","k","l","m",
                "n","o","p","q","r","s","t","u","v","w","x","y","z">>
DigitChars == <<"0","1","2","3","4","5","6","7","8","9">>

Range(s) == {s[i] : i \in DOMAIN s}

\* String.prototype.toLowerCase on one character
LowerChar(c) ==
  IF \E i \in DOMAIN UpperChars : UpperChars[i] = c
  THEN LowerChars[CHOOSE i \in DOMAIN UpperChars : UpperChars[i] = c]
  ELSE c

\* String.prototype.toLowerCase
ToLowerCase(s) == [i \in 1..Len(s) |-> LowerChar(s[i])]

\* String.prototype.startsWith
StartsWith(s, p) == Len(s) >= Len(p) /\ SubSeq(s, 1, Len(p)) = p

\* String.prototype.endsWith
EndsWith(s, p) == Len(s) >= Len(p) /\ SubSeq(s, Len(s) - Len(p) + 1, Len(s)) = p

\* String.prototype.indexOf, 1-based; 0 when p does not occur in s
IndexOf(s, p) ==
  LET at == {i \in 1..(Len(s) + 1) : i + Len(p) - 1 <= Len(s)
                                     /\ SubSeq(s, i, i + Len(p) - 1) = p}
  IN IF at = {} THEN 0 ELSE CHOOSE i \in at : \A j \in at : i <= j

\* String.prototype.replace(p, r) with a string pattern: the first occurrence only
ReplaceFirst(s, p, r) ==
  LET i == IndexOf(s, p)
  IN IF i = 0 THEN s
     ELSE SubSeq(s, 1, i - 1) \o r \o SubSeq(s, i + Len(p), Len(s))

\* the regular expression class [\w-]
IsWordOrHyphen(c) ==
  \/ c \in Range(UpperChars) \/ c \in Range(LowerChars)
  \/ c \in Range(DigitChars) \/ c = "_" \/ c = "-"

\* route.replace(/[^\w-]/g, '')
StripNonWord(s) == SelectSeq(s, IsWordOrHyphen)

----------------------------------------------------------------------------
(* utils/method-mapper.ts *)

sGet == <<"g","e","t">>
sList == <<"l","i","s","t">>
sAdd == <<"a","d","d">>
sUpdate == <<"u","p","d","a","t","e">>
sRemove == <<"r","e","m","o","v","e">>
sDelete == <<"d","e","l","e","t","e">>
sApply == <<"a","p","p","l","y">>
sReset == <<"r","e","s","e","t">>
sDo == <<"d","o">>
sRestart == <<"r","e","s","t","a","r","t">>

\* the verb of an add* operation (method-mapper.ts: httpMethod = 'put')
AddVerb_post == "post"
AddVerb == "put"

\* if (!route.endsWith('s')) route += 's'
Pluralize_always(route) == route \o <<"s">>

Pluralize(route) == IF ~EndsWith(route, <<"s">>) THEN route \o <<"s">> ELSE route

mapAxlMethodToHttp(axlMethod) ==
  LET methodLower == ToLowerCase(axlMethod)
  IN IF StartsWith(methodLower, sGet) \/ StartsWith(methodLower, sList)
     THEN IF StartsWith(methodLower, sList)
          THEN LET route == StripNonWord(ToLowerCase(ReplaceFirst(methodLower, sList, <<>>)))
               IN [httpMethod |-> "get", route |-> Pluralize(route)]
          ELSE [httpMethod |-> "get",
                route |-> StripNonWord(ToLowerCase(ReplaceFirst(methodLower, sGet, <<>>)))]
     ELSE IF StartsWith(methodLower, sAdd)
     THEN [httpMethod |-> AddVerb,
           route |-> StripNonWord(ToLowerCase(ReplaceFirst(methodLower, sAdd, <<>>)))]
     ELSE IF StartsWith(methodLower, sUpdate)
     THEN [httpMethod |-> "patch",
           route |-> StripNonWord(ToLowerCase(ReplaceFirst(methodLower, sUpdate, <<>>)))]
     ELSE IF StartsWith(methodLower, sRemove) \/ StartsWith(methodLower, sDelete)
     THEN [httpMethod |-> "delete",
           route |-> StripNonWord(ToLowerCase(
                       ReplaceFirst(ReplaceFirst(methodLower, sRemove, <<>>), sDelete, <<>>)))]
     ELSE [httpMethod |-> "post", route |-> methodLower]

\* resourceTag.charAt(0).toLowerCase() + resourceTag.substring(1)
LowerFirst_all(resourceTag) == ToLowerCase(resourceTag)

LowerFirst(resourceTag) ==
  IF Len(resourceTag) > 0
  THEN <<LowerChar(resourceTag[1])>> \o SubSeq(resourceTag, 2, Len(resourceTag))
  ELSE resourceTag

\* getResourceTagFromMethod: the case-preserved wrapper tag
TagPrefixes == <<sGet, sList, sAdd, sUpdate, sRemove, sDelete>>

getResourceTagFromMethod(axlMethod) ==
  LET found == {i \in DOMAIN TagPrefixes : StartsWith(ToLowerCase(axlMethod), TagPrefixes[i])}
      prefix == IF found = {} THEN <<>>
                ELSE TagPrefixes[CHOOSE i \in found : \A j \in found : i <= j]
      resourceTag == IF found # {} /\ Len(axlMethod) > Len(prefix)
                     THEN SubSeq(axlMethod, Len(prefix) + 1, Len(axlMethod))
                     ELSE axlMethod
  IN LowerFirst(resourceTag)

----------------------------------------------------------------------------
(* Array.prototype.sort with createDynamicRoutes' comparator.              *)
(* String.prototype.localeCompare (ICU root collation) on the model's      *)
(* alphabet: punctuation before digits before letters, letters compared    *)
(* without case first, and lower case before upper case at the first       *)
(* difference when the strings are otherwise equal.                        *)

PrimaryRank(c) ==
  LET l == LowerChar(c)
  IN IF \E i \in DOMAIN LowerChars : LowerChars[i] = l
     THEN 20 + (CHOOSE i \in DOMAIN LowerChars : LowerChars[i] = l)
     ELSE IF \E i \in DOMAIN DigitChars : DigitChars[i] = l
     THEN 5 + (CHOOSE i \in DOMAIN DigitChars : DigitChars[i] = l)
     ELSE 1

IsUpper(c) == c \in Range(UpperChars)

\* a.localeCompare(b) < 0
LocaleLess(a, b) ==
  LET n == IF Len(a) < Len(b) THEN Len(a) ELSE Len(b)
      pd == {i \in 1..n : PrimaryRank(a[i]) # PrimaryRank(b[i])}
      td == {i \in 1..n : a[i] # b[i]}
  IN IF pd # {}
     THEN LET i == CHOOSE i \in pd : \A j \in pd : i <= j
          IN PrimaryRank(a[i]) < PrimaryRank(b[i])
     ELSE IF Len(a) # Len(b) THEN Len(a) < Len(b)
     ELSE IF td # {}
     THEN LET i == CHOOSE i \in td : \A j \in td : i <= j
          IN ~IsUpper(a[i]) /\ IsUpper(b[i])
     ELSE FALSE

\* the comparator of sortedOperations returns a negative number
ComparatorLess(a, b) ==
  IF StartsWith(ToLowerCase(a), sList) /\ StartsWith(ToLowerCase(b), sGet) THEN TRUE
  ELSE IF StartsWith(ToLowerCase(b), sList) /\ StartsWith(ToLowerCase(a), sGet) THEN FALSE
  ELSE LocaleLess(a, b)

\* V8's Array.prototype.sort on fewer than 64 elements: the leading run is
\* counted (and reversed when strictly descending), the rest is inserted
\* by binary insertion.
RECURSIVE RunEnd(_, _, _)
RunEnd(a, idx, descending) ==
  IF idx > Len(a) THEN idx - 1
  ELSE IF descending = ComparatorLess(a[idx], a[idx - 1])
       THEN RunEnd(a, idx + 1, descending)
       ELSE idx - 1

Reverse(a) == [i \in 1..Len(a) |-> a[Len(a) + 1 - i]]

RECURSIVE InsertionPoint(_, _, _, _)
InsertionPoint(a, pivot, left, right) ==
  IF left < right
  THEN LET mid == left + ((right - left) \div 2)
       IN IF ComparatorLess(pivot, a[mid])
          THEN InsertionPoint(a, pivot, left, mid)
          ELSE InsertionPoint(a, pivot, mid + 1, right)
  ELSE left

RECURSIVE BinaryInsertionSort(_, _)
BinaryInsertionSort(a, start) ==
  IF start > Len(a) THEN a
  ELSE LET pivot == a[start]
           left == InsertionPoint(a, pivot, 1, start)
           moved == SubSeq(a, 1, left - 1) \o <<pivot>> \o SubSeq(a, left, start - 1)
                    \o SubSeq(a, start + 1, Len(a))
       IN BinaryInsertionSort(moved, start + 1)

SortOperations(a) ==
  IF Len(a) < 2 THEN a
  ELSE LET descending == ComparatorLess(a[2], a[1])
           runLength == RunEnd(a, 3, descending)
           run == IF descending THEN Reverse(SubSeq(a, 1, runLength)) \o SubSeq(a, runLength + 1, Len(a))
                  ELSE a
       IN BinaryInsertionSort(run, runLength + 1)

----------------------------------------------------------------------------
(* Operation names the model draws from: a verb prefix in some casing      *)
(* followed by a resource name.                                            *)

Prefixes ==
  { sGet, <<"G","e","t">>, sList, <<"L","I","S","T">>, sAdd, <<"A","d","d">>,
    sUpdate, sRemove, sDelete, <<"D","e","l","e","t","e">>, sApply, sReset,
    sDo, sRestart, <<"g","e">>, <<"l","o","c","k">>, <<"i","s">>, <<>> }

Stems ==
  { <<"L","i","n","e">>, <<"L","i","n","e","s">>, <<"C","s","s">>,
    <<"P","h","o","n","e">>, <<"R","o","u","t","e","P","a","r","t">>,
    <<"S","Q","L",".","Q">>, <<"x">>, <<"A","d","d","O","n">> }

OpNames == {p \o s : p \in Prefixes, s \in Stems}

NoMapping == [httpMethod |-> "none", route |-> <<>>]

----------------------------------------------------------------------------
(* The method mapper on its own: one action applies it to a name.          *)

RoutesIdle ==
  /\ catalog = [ok |-> FALSE, ops |-> <<>>]
  /\ allOperations = <<>>
  /\ appRoutes = <<>>
  /\ swaggerPaths = {}
  /\ phase = "boot"
  /\ hit = <<>>

\* API-key authentication switched off, no request seen
Undefined == [k |-> "undefined", v |-> ""]
Header(v) == [k |-> "string", v |-> v]
Many(v) == [k |-> "array", v |-> v]

NoRequest == [header |-> Undefined, query |-> Undefined,
              consumerId |-> Undefined, anonymous |-> Undefined]

AuthIdle ==
  /\ apiKeyConfig = [enabled |-> FALSE, location |-> "header",
                     devKey |-> "cisco-axl-rest-api-dev-key", production |-> FALSE]
  /\ authReq = NoRequest
  /\ authNext = 0
  /\ authRes = [status |-> 0]

\* auth.middleware.ts, line 10: AUTH_CACHE_DURATION, in minutes
AUTH_CACHE_DURATION == 5

\* the clock when the module is loaded: Date.now() counts from 1970, so
\* the initial lastCheckTime of 0 is more than a cache duration old
Boot == AUTH_CACHE_DURATION

\* auth.middleware.ts, lines 7-9, before startAuthenticationCheck
SessionIdle ==
  /\ now = Boot
  /\ axlConfigured = TRUE
  /\ isAuthenticated = FALSE
  /\ authError = "null"
  /\ lastCheckTime = 0
  /\ timerDue = 0
  /\ checks = <<>>
  /\ lastCall = "none"
  /\ callBit = FALSE
  /\ gate = "none"

\* no refresh is running and the documentation has not been read
NoRead == [served |-> FALSE, inFlight |-> 0, paths |-> {}]

DocsIdle ==
  /\ refreshes = 0
  /\ docsRead = NoRead

\* nothing has been asked of the backend
NoBackend == [listed |-> FALSE, operations |-> <<>>, shape |-> <<>>, outcome |-> <<>>]

ExecIdle ==
  /\ req = <<>>
  /\ pc = "idle"
  /\ tags = <<>>
  /\ sent = <<>>
  /\ backendCalls = <<>>
  /\ res = [status |-> 0]
  /\ nextErr = [statusCode |-> 0]
  /\ axl = NoBackend

InitClassify ==
  /\ clsOp = <<>>
  /\ clsMap = NoMapping
  /\ clsTag = <<>>
  /\ RoutesIdle
  /\ ExecIdle
  /\ AuthIdle
  /\ DocsIdle
  /\ SessionIdle

Classify ==
  \E op \in OpNames :
    /\ clsOp' = op
    /\ clsMap' = mapAxlMethodToHttp(op)
    /\ clsTag' = getResourceTagFromMethod(op)
    /\ UNCHANGED <<authVars, docVars, sessionVars, routeVars, execVars>>

NextClassify == Classify

SpecClassify == InitClassify /\ [][NextClassify]_vars

\* The documented rule table (CLAUDE.md "Method Mapping Convention"): the
\* first row whose prefix the name starts with, ignoring case, else POST.
VerbTable ==
  << <<sGet, "get">>, <<sList, "get">>, <<sAdd, "put">>, <<sUpdate, "patch">>,
     <<sRemove, "delete">>, <<sDelete, "delete">> >>

HasPrefixCI(name, p) ==
  /\ Len(name) >= Len(p)
  /\ \A i \in 1..Len(p) : LowerChar(name[i]) = p[i]

TableVerb(name) ==
  LET rows == {i \in DOMAIN VerbTable : HasPrefixCI(name, VerbTable[i][1])}
  IN IF rows = {} THEN "post"
     ELSE VerbTable[CHOOSE i \in rows : \A j \in rows : i <= j][2]

----------------------------------------------------------------------------
(* controllers/dynamic.controller.ts: the documentation model, the route   *)
(* registrar and Express' routing.                                         *)

\* /api/axl/<route> and /api/axl/<route>/:parameter/:value
AxlPath(route, param) == [kind |-> "axl", route |-> route, param |-> param]
SetupMethodsPath == [kind |-> "setup/methods", route |-> <<>>, param |-> FALSE]
SetupParametersPath == [kind |-> "setup/methods/:method/parameters", route |-> <<>>, param |-> FALSE]
DebugOperationsPath == [kind |-> "debug/operations", route |-> <<>>, param |-> FALSE]
DebugRoutesPath == [kind |-> "debug/routes", route |-> <<>>, param |-> FALSE]
DebugRefreshPath == [kind |-> "debug/refresh-examples", route |-> <<>>, param |-> FALSE]
DebugReloadPath == [kind |-> "debug/reload-ui", route |-> <<>>, param |-> FALSE]

\* app[verb](path, handler): the handler runs executeAxlOperation with
\* req.params.method = method (<<>> for an administrative handler)
Bound(verb, path, method) == [verb |-> verb, path |-> path, method |-> method]

\* swaggerSpec.paths[path][httpMethod] = {...}: one entry per path and verb,
\* a later call for the same path and verb replaces the earlier entry
addPathToSwagger(paths, method, path, httpMethod) ==
  {e \in paths : ~(e.path = path /\ e.verb = httpMethod)}
    \cup {[path |-> path, verb |-> httpMethod, method |-> method,
           parameters |-> path.param, requestBody |-> (httpMethod # "get")]}

\* the operation the companion GET route of an add* operation runs
CompanionOperation(operation) == ReplaceFirst(operation, sAdd, sList)

\* whether the bare route is skipped for this operation
isGetOperation_never(operation, httpMethod) == FALSE

isGetOperation(operation, httpMethod) ==
  StartsWith(ToLowerCase(operation), sGet) /\ httpMethod = "get"

\* the verbs that also get the /:parameter/:value route
ParamVerbs_noPatch == {"get", "delete"}

ParamVerbs == {"get", "patch", "delete"}

\* one turn of sortedOperations.forEach in createDynamicRoutes
RegisterOperation(st, operation) ==
  LET m == mapAxlMethodToHttp(operation)
      routePath == AxlPath(m.route, FALSE)
      paramPath == AxlPath(m.route, TRUE)
      isGet == isGetOperation(operation, m.httpMethod)
      r1 == IF ~isGet THEN <<Bound(m.httpMethod, routePath, operation)>> ELSE <<>>
      r2 == IF m.httpMethod = "put"
            THEN <<Bound("get", routePath, CompanionOperation(operation))>> ELSE <<>>
      r3 == IF m.httpMethod \in ParamVerbs
            THEN <<Bound(m.httpMethod, paramPath, operation)>> ELSE <<>>
      sw1 == IF ~isGet THEN addPathToSwagger(st.sw, operation, routePath, m.httpMethod)
             ELSE st.sw
      sw2 == IF m.httpMethod \in ParamVerbs
             THEN addPathToSwagger(sw1, operation, paramPath, m.httpMethod) ELSE sw1
  IN [routes |-> st.routes \o r1 \o r2 \o r3, sw |-> sw2]

RECURSIVE RegisterAll(_, _, _)
RegisterAll(st, ops, i) ==
  IF i > Len(ops) THEN st ELSE RegisterAll(RegisterOperation(st, ops[i]), ops, i + 1)

\* one turn of sortedOperations.forEach in GET /api/debug/refresh-examples
RefreshOperation(sw, operation) ==
  LET m == mapAxlMethodToHttp(operation)
      routePath == AxlPath(m.route, FALSE)
      paramPath == AxlPath(m.route, TRUE)
  IN IF m.httpMethod = "get" /\ ~StartsWith(ToLowerCase(operation), sList)
     THEN addPathToSwagger(sw, operation, paramPath, m.httpMethod)
     ELSE LET sw1 == addPathToSwagger(sw, operation, routePath, m.httpMethod)
          IN IF m.httpMethod = "patch" \/ m.httpMethod = "delete"
             THEN addPathToSwagger(sw1, operation, paramPath, m.httpMethod)
             ELSE sw1

RECURSIVE RefreshAll(_, _, _)
RefreshAll(sw, ops, i) ==
  IF i > Len(ops) THEN sw ELSE RefreshAll(RefreshOperation(sw, ops[i]), ops, i + 1)

\* Express: the first route of the stack with the verb whose path matches
\* the request's; route paths match without regard to case
Matches(r, verb, path) ==
  /\ r.verb = verb
  /\ r.path.kind = path.kind
  /\ r.path.param = path.param
  /\ ToLowerCase(r.path.route) = ToLowerCase(path.route)

FirstMatch(routes, verb, path) ==
  LET at == {i \in DOMAIN routes : Matches(routes[i], verb, path)}
  IN IF at = {} THEN 0 ELSE CHOOSE i \in at : \A j \in at : i <= j

Verbs == {"get", "post", "put", "patch", "delete"}

----------------------------------------------------------------------------
(* Startup, refresh and routing as a state machine.                        *)

opAddLine == sAdd \o <<"L","i","n","e">>
opListLines == sList \o <<"L","i","n","e","s">>
opGetLine == sGet \o <<"L","i","n","e">>
opUpdateLine == sUpdate \o <<"L","i","n","e">>
opRemoveLine == sRemove \o <<"L","i","n","e">>
opListCss == sList \o <<"C","s","s">>
opGetCss == sGet \o <<"C","s","s">>
opDoLogin == sDo \o <<"L","o","g","i","n">>

CatalogOps == {opAddLine, opListLines, opGetLine, opUpdateLine, opRemoveLine,
               opListCss, opGetCss, opDoLogin}

\* the largest catalog drawn freely from CatalogOps
MaxCatalog == 2

LineCatalog == <<opAddLine, opListLines, opGetLine, opUpdateLine, opRemoveLine>>
LineCatalogShuffled == <<opUpdateLine, opGetLine, opRemoveLine, opListLines, opAddLine>>

\* an operation that is neither list* nor get* and whose name sorts
\* between the two
opImportLine == <<"i","m","p","o","r","t">> \o <<"L","i","n","e">>
MixedCatalog == <<opGetLine, opImportLine, opListLines>>

\* an add operation whose prefix is not in lower case
opAddLineCapital == <<"A","d","d">> \o <<"L","i","n","e">>
CapitalCatalog == <<opAddLineCapital>>

Catalogs ==
  {s \in UNION {[1..k -> CatalogOps] : k \in 0..MaxCatalog} :
      \A i, j \in DOMAIN s : i # j => s[i] # s[j]}
    \cup {LineCatalog, LineCatalogShuffled, MixedCatalog, CapitalCatalog}

InitRoutes ==
  /\ clsOp = <<>>
  /\ clsMap = NoMapping
  /\ clsTag = <<>>
  /\ ExecIdle
  /\ AuthIdle
  /\ DocsIdle
  /\ SessionIdle
  /\ catalog \in [ok : {TRUE}, ops : Catalogs] \cup {[ok |-> FALSE, ops |-> <<>>]}
  /\ allOperations = <<>>
  /\ appRoutes = <<>>
  /\ swaggerPaths = {}
  /\ phase = "boot"
  /\ hit = <<>>

\* index.ts: app.use(function(err, req, res, next) { errorHandler(...) })
ErrorMiddlewarePath == [kind |-> "error middleware", route |-> <<>>, param |-> FALSE]
ErrorMiddleware == Bound("use", ErrorMiddlewarePath, <<>>)

\* createDynamicRoutes up to its first await (the catalog fetch)
StaticRoutes_none == <<>>

StaticRoutes ==
  << Bound("get", SetupMethodsPath, <<>>),
     Bound("get", SetupParametersPath, <<>>),
     Bound("get", DebugOperationsPath, <<>>) >>

StaticDocs ==
  addPathToSwagger(
    addPathToSwagger({}, <<"getAvailableMethods">>, SetupMethodsPath, "get"),
    <<"getMethodParameters">>, SetupParametersPath, "get")

\* the stack index.ts has built when createDynamicRoutes is waiting for the
\* catalog: the call returns its promise at the await, and the module goes
\* on to install the error middleware and to listen
ListeningRoutes == StaticRoutes \o <<ErrorMiddleware>>

\* createDynamicRoutes(app), start to end: the routes and the documentation
\* it leaves for the catalog answer c
Startup(c) ==
  LET routes0 == ListeningRoutes
      sw0 == StaticDocs
      st == IF c.ok
            THEN RegisterAll([routes |-> routes0, sw |-> sw0], SortOperations(c.ops), 1)
            ELSE [routes |-> routes0, sw |-> sw0]
  IN [routes |-> st.routes \o << Bound("get", DebugRoutesPath, <<>>),
                                  Bound("get", DebugRefreshPath, <<>>),
                                  Bound("get", DebugReloadPath, <<>>) >>,
      sw |-> st.sw,
      ops |-> IF c.ok THEN c.ops ELSE <<>>]

\* index.ts calls createDynamicRoutes(app), which runs to the await of the
\* catalog, and then finishes its own module body
CreateDynamicRoutes ==
  /\ phase = "boot"
  /\ appRoutes' = ListeningRoutes
  /\ swaggerPaths' = StaticDocs
  /\ phase' = "listening"
  /\ UNCHANGED <<authVars, docVars, sessionVars, classifyVars, execVars, catalog, allOperations, hit>>

\* the catalog fetch settles and createDynamicRoutes runs to its end
CatalogAnswered ==
  /\ phase = "listening"
  /\ allOperations' = Startup(catalog).ops
  /\ appRoutes' = Startup(catalog).routes
  /\ swaggerPaths' = Startup(catalog).sw
  /\ phase' = "up"
  /\ UNCHANGED <<authVars, docVars, sessionVars, classifyVars, execVars, catalog, hit>>

\* the refresh handlers that may be waiting for updateSwaggerFile at once
MaxRefreshes == 2

\* what swaggerSpec.paths holds when the refresh handler reaches its only
\* await: the assignment of {} and the forEach over the sorted operations
\* are one synchronous stretch, so the whole rebuild is done by then
RebuiltAtAwait_cleared(ops) == {}

RebuiltAtAwait(ops) == RefreshAll({}, SortOperations(ops), 1)

\* GET /api/debug/refresh-examples, from its start to
\* await updateSwaggerFile(allOperations)
RefreshExamples ==
  /\ phase = "up"
  /\ refreshes < MaxRefreshes
  /\ swaggerPaths' = RebuiltAtAwait(allOperations)
  /\ refreshes' = refreshes + 1
  /\ UNCHANGED <<authVars, docsRead, sessionVars, classifyVars, execVars, catalog, allOperations, appRoutes, phase, hit>>

\* updateSwaggerFile settles: the handler answers 200 with the path count
RefreshAnswered ==
  /\ refreshes > 0
  /\ refreshes' = refreshes - 1
  /\ UNCHANGED <<authVars, docsRead, sessionVars, classifyVars, execVars, routeVars>>

\* GET /api-docs.json, bound by setupSwagger before the server listens:
\* res.send(swaggerSpec)
ReadApiDocs ==
  /\ phase \in {"listening", "up"}
  /\ docsRead' = [served |-> TRUE, inFlight |-> refreshes, paths |-> swaggerPaths]
  /\ UNCHANGED <<authVars, refreshes, sessionVars, classifyVars, execVars, routeVars>>

\* a request for one of the bound operation paths, with any verb
RouteRequest ==
  /\ phase = "up"
  /\ \E i \in DOMAIN appRoutes, verb \in Verbs :
       /\ appRoutes[i].path.kind = "axl"
       /\ LET k == FirstMatch(appRoutes, verb, appRoutes[i].path)
          IN hit' = [verb |-> verb, path |-> appRoutes[i].path,
                     method |-> IF k = 0 THEN <<>> ELSE appRoutes[k].method,
                     layer |-> k]
  /\ UNCHANGED <<authVars, docVars, sessionVars, classifyVars, execVars, catalog, allOperations, appRoutes, swaggerPaths, phase>>

NextRoutes ==
  \/ CreateDynamicRoutes
  \/ CatalogAnswered
  \/ RefreshExamples
  \/ RefreshAnswered
  \/ RouteRequest

\* the documentation and its readers alone
NextDocs ==
  \/ CreateDynamicRoutes
  \/ CatalogAnswered
  \/ RefreshExamples
  \/ RefreshAnswered
  \/ ReadApiDocs

SpecDocs == InitRoutes /\ [][NextDocs]_vars

SpecRoutes == InitRoutes /\ [][NextRoutes]_vars

AxlRoutes == {appRoutes[i] : i \in {j \in DOMAIN appRoutes : appRoutes[j].path.kind = "axl"}}

IsGetName(name) == HasPrefixCI(name, sGet)

\* get<X>'s URL segment: X in lower case, without the characters a route drops
GetSegment(name) == StripNonWord(ToLowerCase(SubSeq(name, Len(sGet) + 1, Len(name))))

\* C2: for every catalog, every get<X> operation of it is bound, and only
\* at GET /api/axl/<x>/:parameter/:value; no bare route is bound to a get*
\* operation and no request for a bare path is dispatched to one.
C2_GetOnlyParameterized ==
  phase = "up" =>
    /\ \A i \in DOMAIN allOperations :
         IsGetName(allOperations[i]) =>
           \E r \in AxlRoutes : r.method = allOperations[i]
    /\ \A r \in AxlRoutes :
         IsGetName(r.method) =>
           /\ r.verb = "get"
           /\ r.path = AxlPath(GetSegment(r.method), TRUE)
    /\ (hit # <<>> /\ ~hit.path.param) => ~IsGetName(hit.method)

\* getLine is in the catalog and a GET for the bare /line was routed
C2_Witness ==
  /\ phase = "up"
  /\ \E i \in DOMAIN allOperations : allOperations[i] = opGetLine
  /\ hit # <<>>
  /\ hit.verb = "get"
  /\ hit.path = AxlPath(<<"l","i","n","e">>, FALSE)
  /\ hit.method # <<>>

segLine == <<"l","i","n","e">>
segLines == <<"l","i","n","e","s">>

\* C3: for the catalog addLine, listLines, getLine, updateLine, removeLine
\* (in any order) the operation routes are exactly: PUT /line (addLine),
\* GET /line (the companion, running the list operation), GET /lines and
\* GET /lines/:parameter/:value (listLines), GET /line/:parameter/:value
\* (getLine), PATCH /line and PATCH /line/:parameter/:value (updateLine),
\* DELETE /line and DELETE /line/:parameter/:value (removeLine); each is
\* bound once and a GET for the bare /line does not reach getLine.
C3_LineCatalogRoutes ==
  (phase = "up" /\ Len(allOperations) = 5 /\ Range(allOperations) = Range(LineCatalog)) =>
    /\ AxlRoutes =
         { Bound("put", AxlPath(segLine, FALSE), opAddLine),
           Bound("get", AxlPath(segLine, FALSE), sList \o <<"L","i","n","e">>),
           Bound("get", AxlPath(segLines, FALSE), opListLines),
           Bound("get", AxlPath(segLines, TRUE), opListLines),
           Bound("get", AxlPath(segLine, TRUE), opGetLine),
           Bound("patch", AxlPath(segLine, FALSE), opUpdateLine),
           Bound("patch", AxlPath(segLine, TRUE), opUpdateLine),
           Bound("delete", AxlPath(segLine, FALSE), opRemoveLine),
           Bound("delete", AxlPath(segLine, TRUE), opRemoveLine) }
    /\ Cardinality({j \in DOMAIN appRoutes : appRoutes[j].path.kind = "axl"}) = 9
    /\ LET k == FirstMatch(appRoutes, "get", AxlPath(segLine, FALSE))
       IN k # 0 /\ appRoutes[k].method # opGetLine

\* C3 as first stated: the eight routes it lists and no others
C3_Original ==
  (phase = "up" /\ Len(allOperations) = 5 /\ Range(allOperations) = Range(LineCatalog)) =>
    AxlRoutes =
      { Bound("put", AxlPath(segLine, FALSE), opAddLine),
        Bound("get", AxlPath(segLine, FALSE), sList \o <<"L","i","n","e">>),
        Bound("get", AxlPath(segLines, FALSE), opListLines),
        Bound("get", AxlPath(segLine, TRUE), opGetLine),
        Bound("patch", AxlPath(segLine, FALSE), opUpdateLine),
        Bound("patch", AxlPath(segLine, TRUE), opUpdateLine),
        Bound("delete", AxlPath(segLine, FALSE), opRemoveLine),
        Bound("delete", AxlPath(segLine, TRUE), opRemoveLine) }

\* the five-operation catalog, in an order other than the listed one, is registered
C3_Witness ==
  /\ phase = "up"
  /\ allOperations = LineCatalogShuffled
  /\ Len(appRoutes) > 6

\* C4: after startup and after any refresh, every bound operation route
\* has exactly one swaggerSpec.paths entry under its path and verb, and the
\* entry names the operation a request for that route is dispatched to.
C4_EveryRouteDocumented ==
  phase = "up" =>
    \A r \in AxlRoutes :
      LET entries == {e \in swaggerPaths : e.path = r.path /\ e.verb = r.verb}
          k == FirstMatch(appRoutes, r.verb, r.path)
      IN /\ Cardinality(entries) = 1
         /\ \A e \in entries : e.method = appRoutes[k].method

----------------------------------------------------------------------------
(* JSON values: requests' bodies and queries, the backend's argument       *)
(* shapes, the arguments built from them.                                  *)

Str(s) == [k |-> "s", v |-> s]
Obj(f) == [k |-> "o", v |-> f]
Null == [k |-> "n", v |-> <<>>]
EmptyObject == [x \in {} |-> Null]

IsStr(v) == v.k = "s"
IsObj(v) == v.k = "o"

\* JavaScript truthiness of the values modelled: objects and non-empty
\* strings are truthy, null and "" are not
Truthy(v) == IsObj(v) \/ (IsStr(v) /\ v.v # <<>>)

\* Object.prototype.hasOwnProperty.call(f, key)
Has(f, key) == key \in DOMAIN f

\* f[key] is truthy (undefined when the key is missing)
TruthyAt(f, key) == Has(f, key) /\ Truthy(f[key])

\* { ...a, ...b }
Spread(a, b) == b @@ a

\* f[key] = val
SetKey(f, key, val) == (key :> val) @@ f

\* delete f[key]
DeleteKey(f, key) == [x \in DOMAIN f \ {key} |-> f[x]]

kName == <<"n","a","m","e">>
kUuid == <<"u","u","i","d">>
kDescription == <<"d","e","s","c","r","i","p","t","i","o","n">>
kCustomerName == <<"c","u","s","t","o","m","e","r","N","a","m","e">>
kSearchCriteria == <<"s","e","a","r","c","h","C","r","i","t","e","r","i","a">>
kReturnedTags == <<"r","e","t","u","r","n","e","d","T","a","g","s">>
kSkip == <<"s","k","i","p">>
kFirst == <<"f","i","r","s","t">>
kMethod == <<"m","e","t","h","o","d">>
kParameter == <<"p","a","r","a","m","e","t","e","r">>
kValue == <<"v","a","l","u","e">>
kData == <<"_","d","a","t","a">>
kPattern == <<"p","a","t","t","e","r","n">>
kRoutePartitionName == <<"r","p","n">>
Percent == <<"%">>

----------------------------------------------------------------------------
(* executeAxlOperation: the category-specific shaping of tags.  r is the   *)
(* request (method, paramType, paramValue, query, body), shape the value   *)
(* of tags when the branch is entered.  The result is the new tags, or the *)
(* message of the 400 BAD_REQUEST the branch answers with.                 *)

Shaped(f) == [ok |-> TRUE, tags |-> f]
BadRequest(m) == [ok |-> FALSE, message |-> m]

\* searchCriteriaKeys.forEach: customerName deleted, every other key "%"
DefaultCriteria_keepCustomer(sc) == [x \in DOMAIN sc |-> Str(Percent)]

DefaultCriteria(sc) == [x \in DOMAIN sc \ {kCustomerName} |-> Str(Percent)]

\* the list branch
ListTags(shape, r) ==
  IF TruthyAt(shape, kSearchCriteria) /\ IsObj(shape[kSearchCriteria])
  THEN LET sc0 == shape[kSearchCriteria].v
           byPath == r.paramType # <<>> /\ r.paramValue # <<>>
           sc1 == IF byPath THEN DefaultCriteria(sc0) ELSE sc0
           sc2 == IF byPath /\ Has(sc1, r.paramType)
                  THEN SetKey(sc1, r.paramType, Str(r.paramValue)) ELSE sc1
           sc3 == [x \in DOMAIN sc2 |->
                     IF x # kMethod /\ Has(r.query, x) THEN r.query[x] ELSE sc2[x]]
           sc4 == IF r.paramValue = <<>> /\ ~(\E x \in DOMAIN r.query : x # kMethod)
                  THEN DefaultCriteria(sc3) ELSE sc3
       IN Shaped( (kSearchCriteria :> Obj(sc4))
                  @@ (kReturnedTags :> IF TruthyAt(shape, kReturnedTags)
                                       THEN shape[kReturnedTags] ELSE Obj(EmptyObject))
                  @@ (kSkip :> IF TruthyAt(shape, kSkip) THEN shape[kSkip] ELSE Str(<<>>))
                  @@ (kFirst :> IF TruthyAt(shape, kFirst) THEN shape[kFirst] ELSE Str(<<>>)) )
  ELSE Shaped(EmptyObject)

\* the get branch
GetTags(shape, r) ==
  IF r.paramValue # <<>>
  THEN Shaped((IF r.paramType # <<>> THEN r.paramType ELSE kUuid) :> Str(r.paramValue))
  ELSE IF DOMAIN r.query # {}
  THEN Shaped(r.query)
  ELSE IF /\ Has(shape, kName) /\ shape[kName] = Str(<<>>)
          /\ Has(shape, kUuid) /\ shape[kUuid] = Str(<<>>)
  THEN BadRequest("requires valid parameters (like name or uuid)")
  ELSE IF TruthyAt(shape, kSearchCriteria) /\ IsObj(shape[kSearchCriteria])
  THEN Shaped(kSearchCriteria :> Obj(DefaultCriteria(shape[kSearchCriteria].v)))
  ELSE Shaped(shape)

\* req.body && req.body[resourceTag]: the body holds a truthy value under
\* the wrapper tag
HasWrapper_anyValue(body, resourceTag) == Has(body, resourceTag)

HasWrapper(body, resourceTag) == TruthyAt(body, resourceTag)

\* the add branch
AddTags_withSkeleton(shape, r) ==
  LET resourceTag == getResourceTagFromMethod(r.method)
  IN IF HasWrapper(r.body, resourceTag)
     THEN Shaped(SetKey(shape, resourceTag, r.body[resourceTag]))
     ELSE Shaped(SetKey(shape, resourceTag, Obj(r.body)))

AddTags(shape, r) ==
  LET resourceTag == getResourceTagFromMethod(r.method)
  IN IF HasWrapper(r.body, resourceTag)
     THEN Shaped(resourceTag :> r.body[resourceTag])
     ELSE Shaped(resourceTag :> Obj(r.body))

\* { ...v }: the own enumerable fields of v; a string spreads into one field
\* per character under its index ("0", "1", ...), null into none
Fields(v) ==
  IF IsObj(v) THEN v.v
  ELSE IF IsStr(v) /\ Len(v.v) <= 10
  THEN [x \in {<<DigitChars[i]>> : i \in 1..Len(v.v)} |->
          Str(<<v.v[CHOOSE i \in 1..Len(v.v) : <<DigitChars[i]>> = x]>>)]
  ELSE EmptyObject

\* the update branch
UpdateTags(shape, r) ==
  LET resourceTag == getResourceTagFromMethod(r.method)
      inner == IF HasWrapper(r.body, resourceTag)
               THEN Fields(r.body[resourceTag]) ELSE r.body
  IN IF r.paramType # <<>> /\ r.paramValue # <<>>
     THEN Shaped(Spread(inner, r.paramType :> Str(r.paramValue)))
     ELSE Shaped(inner)

\* hasName / hasUuid: req.body.name && req.body.name !== ''
HasIdentifier_present(body, key) == Has(body, key)

HasIdentifier(body, key) == TruthyAt(body, key)

\* the remove / delete branch
RemoveTags(shape, r) ==
  IF r.paramValue # <<>>
  THEN Shaped(SetKey(shape, IF r.paramType # <<>> THEN r.paramType ELSE kUuid,
                     Str(r.paramValue)))
  ELSE IF HasIdentifier(r.body, kName)
  THEN Shaped(SetKey(shape, kName, r.body[kName]))
  ELSE IF HasIdentifier(r.body, kUuid)
  THEN Shaped(SetKey(shape, kUuid, r.body[kUuid]))
  ELSE BadRequest("An identifier (name or uuid) is required in either URL parameters or request body for delete operations")

\* method.toLowerCase().startsWith('do'): the operations the identifier
\* requirement is waived for
IsDoOperation_never(method) == FALSE

IsDoOperation(method) == StartsWith(ToLowerCase(method), sDo)

\* the apply / reset / do branch
CommandTags_merged(shape, r) == Shaped(Spread(shape, r.body))

CommandTags(shape, r) ==
  IF r.paramValue # <<>>
  THEN Shaped((IF r.paramType # <<>> THEN r.paramType ELSE kUuid) :> Str(r.paramValue))
  ELSE LET hasName == HasIdentifier(r.body, kName)
           hasUuid == HasIdentifier(r.body, kUuid)
           copied == [x \in (DOMAIN r.body \ {kName, kUuid})
                              \cup (IF hasName THEN {kName} ELSE {})
                              \cup (IF hasUuid THEN {kUuid} ELSE {}) |-> r.body[x]]
       IN IF ~hasName /\ ~hasUuid /\ ~IsDoOperation(r.method)
          THEN BadRequest("An identifier (name or uuid) is required at the root level")
          ELSE Shaped(copied)

\* every other operation: { ...tags, ...paramsObj, ...req.query, ...req.body }
DefaultTags(shape, r) ==
  LET paramsObj == IF r.paramValue # <<>>
                   THEN (kParameter :> Str(r.paramType)) @@ (kValue :> Str(r.paramValue))
                   ELSE EmptyObject
  IN Shaped(Spread(Spread(Spread(shape, paramsObj), r.query), r.body))

\* the chain of prefix tests of executeAxlOperation
Category(method) ==
  LET l == ToLowerCase(method)
  IN IF StartsWith(l, sList) THEN "list"
     ELSE IF StartsWith(l, sGet) THEN "get"
     ELSE IF StartsWith(l, sAdd) THEN "add"
     ELSE IF StartsWith(l, sUpdate) THEN "update"
     ELSE IF StartsWith(l, sRemove) \/ StartsWith(l, sDelete) THEN "remove"
     ELSE IF StartsWith(l, sApply) \/ StartsWith(l, sReset) \/ StartsWith(l, sDo) THEN "command"
     ELSE "other"

ShapeTags(shape, r) ==
  LET c == Category(r.method)
  IN IF c = "list" THEN ListTags(shape, r)
     ELSE IF c = "get" THEN GetTags(shape, r)
     ELSE IF c = "add" THEN AddTags(shape, r)
     ELSE IF c = "update" THEN UpdateTags(shape, r)
     ELSE IF c = "remove" THEN RemoveTags(shape, r)
     ELSE IF c = "command" THEN CommandTags(shape, r)
     ELSE DefaultTags(shape, r)

----------------------------------------------------------------------------
(* utils/case-insensitive-examples.ts: the template processor.             *)

\* String.prototype.includes
Includes(s, t) ==
  \E i \in 1..(Len(s) - Len(t) + 1) : SubSeq(s, i, i + Len(t) - 1) = t

Backslash == "\\"
MarkerOpen == <<"%","%","_">>
MarkerClose == <<"_","%","%">>

\* replacement.replace(/\\\\/g, '\\'): each pair of backslashes, taken from the
\* left, becomes one
RECURSIVE CollapseBackslashes(_, _)
CollapseBackslashes(s, i) ==
  IF i > Len(s) THEN <<>>
  ELSE IF i < Len(s) /\ s[i] = Backslash /\ s[i + 1] = Backslash
  THEN <<Backslash>> \o CollapseBackslashes(s, i + 2)
  ELSE <<s[i]>> \o CollapseBackslashes(s, i + 1)

\* the text String.prototype.replace inserts for a value the callback returns
ToText(v) ==
  IF IsStr(v) THEN v.v
  ELSE IF IsObj(v) THEN <<"[","o","b","j","e","c","t"," ","O","b","j","e","c","t","]">>
  ELSE <<"n","u","l","l">>

\* whether the replacement's doubled backslashes are collapsed
NormalizeEscapes_off(v) == v

NormalizeEscapes(v) ==
  IF IsStr(v) /\ Includes(v.v, <<Backslash>>)
  THEN Str(CollapseBackslashes(v.v, 1)) ELSE v

\* the callback of processStringValue: the text put in place of one match
Replacement(match, variableName, dataValues) ==
  IF Has(dataValues, variableName)
  THEN ToText(NormalizeEscapes(dataValues[variableName]))
  ELSE match

\* the index of the first "%" of s at or after i, 0 when there is none
FirstPercentFrom(s, i) ==
  LET at == {j \in i..Len(s) : s[j] = "%"}
  IN IF at = {} THEN 0 ELSE CHOOSE j \in at : \A h \in at : j <= h

\* value.replace(/%%_([^%]+)_%%/g, callback) from index i on: a match starts
\* at i when "%%_" is there, the name runs to the character before the next
\* "%", is not empty once its closing "_" is taken off, and "%%" follows
RECURSIVE ReplaceMarkers(_, _, _)
ReplaceMarkers(s, i, dataValues) ==
  IF i > Len(s) THEN <<>>
  ELSE LET k == FirstPercentFrom(s, i + 3)
           isMatch == /\ i + 2 <= Len(s)
                      /\ SubSeq(s, i, i + 2) = MarkerOpen
                      /\ k >= i + 5
                      /\ k + 1 <= Len(s)
                      /\ SubSeq(s, k - 1, k + 1) = MarkerClose
       IN IF isMatch
          THEN Replacement(SubSeq(s, i, k + 1), SubSeq(s, i + 3, k - 2), dataValues)
                 \o ReplaceMarkers(s, k + 2, dataValues)
          ELSE <<s[i]>> \o ReplaceMarkers(s, i + 1, dataValues)

processStringValue(value, dataValues) == ReplaceMarkers(value, 1, dataValues)

\* processContainerValues: container is an object's fields, dataValues the
\* value found under the container key
RECURSIVE processContainerValues(_, _)
processContainerValues(container, dataValues) ==
  IF ~IsObj(dataValues) THEN container
  ELSE [key \in DOMAIN container |->
          LET value == container[key]
          IN IF key = kData THEN value
             ELSE IF IsStr(value)
             THEN IF Includes(value.v, MarkerOpen)
                  THEN Str(processStringValue(value.v, dataValues.v)) ELSE value
             ELSE IF IsObj(value)
             THEN Obj(processContainerValues(value.v, dataValues))
             ELSE value]

\* process.env.DATACONTAINERIDENTIFIERTAILS || '_data'
dataContainerIdentifierTails == kData

\* processTemplateVariables: containers are handled parents first; each has
\* its subtree processed with its own values and then loses the container
\* key
RECURSIVE processTemplateVariables(_, _)
processTemplateVariables(obj, id) ==
  LET own == IF Has(obj, id)
             THEN DeleteKey(processContainerValues(obj, obj[id]), id)
             ELSE obj
  IN [key \in DOMAIN own |->
        IF IsObj(own[key]) THEN Obj(processTemplateVariables(own[key].v, id))
        ELSE own[key]]

\* JSON.stringify(tags).includes('"' + id + '"'): some key of the tree is
\* id, or some string value is exactly id
RECURSIVE MentionsQuoted(_, _)
MentionsQuoted(f, id) ==
  \/ Has(f, id)
  \/ \E key \in DOMAIN f :
       \/ IsStr(f[key]) /\ f[key].v = id
       \/ IsObj(f[key]) /\ MentionsQuoted(f[key].v, id)

\* JSON.stringify(tags).includes('"_data":'): some key of the tree is _data
RECURSIVE HasKeyDeep(_, _)
HasKeyDeep(f, id) ==
  \/ Has(f, id)
  \/ \E key \in DOMAIN f : IsObj(f[key]) /\ HasKeyDeep(f[key].v, id)

\* the template pass of executeAxlOperation
TemplatePass_skipped(t) == t

TemplatePass(t) ==
  IF MentionsQuoted(t, dataContainerIdentifierTails) \/ HasKeyDeep(t, kData)
  THEN processTemplateVariables(t, dataContainerIdentifierTails)
  ELSE t

----------------------------------------------------------------------------
(* executeAxlOperation as a state machine: one action per stretch of the   *)
(* handler between two awaited backend calls.                              *)

\* the program's own message texts
Text(t) == [k |-> "text", v |-> t]

\* JSON.stringify(v), kept as the value it serialises
JSONstringify(v) == [k |-> "json", v |-> v]

\* res.status(status).json({error, message, ...}); params is the tags the
\* body carries, body what else it is made of
Response(status, error, message, params, body) ==
  [status |-> status, error |-> error, message |-> message, params |-> params,
   body |-> body, type |-> "json", by |-> "executeAxlOperation"]

NoResponse == [status |-> 0]
NoError == [statusCode |-> 0]

\* what the code copied by reference is after the pass changed it in place:
\* an object value the arguments held before the pass is the object they
\* hold after it
Shared(holder, before, after) ==
  [key \in DOMAIN holder |->
     IF IsObj(holder[key]) /\ Has(before, key) /\ before[key] = holder[key]
        /\ Has(after, key)
     THEN after[key] ELSE holder[key]]

\* req.body once the template pass has run over arguments built from it
BodyAfter(r, before, after) ==
  LET c == Category(r.method)
      resourceTag == getResourceTagFromMethod(r.method)
  IN IF c = "add"
     THEN IF HasWrapper(r.body, resourceTag)
          THEN SetKey(r.body, resourceTag, after[resourceTag])
          ELSE after[resourceTag].v
     ELSE IF c = "update" /\ HasWrapper(r.body, resourceTag)
     THEN IF IsObj(r.body[resourceTag])
          THEN SetKey(r.body, resourceTag,
                      Obj(Shared(r.body[resourceTag].v, before, after)))
          ELSE r.body
     ELSE Shared(r.body, before, after)

\* String constants of the requests and answers drawn below
vABC == <<"A","B","C">>
v123 == <<"1","2","3">>
v999 == <<"9","9","9">>
vFoo == <<"f","o","o">>
vQ == <<"Q">>
v1001 == <<"1","0","0","1">>
vEscaped == <<Backslash, Backslash, "+", "1">>
kExt == <<"e","x","t">>
kNo == <<"n","o">>
kLine == <<"l","i","n","e">>
kLineCapital == <<"L","i","n","e">>
kFaultcode == <<"f","a","u","l","t","c","o","d","e">>
kFaultstring == <<"f","a","u","l","t","s","t","r","i","n","g">>
kDetail == <<"d","e","t","a","i","l">>

opApplyLine == sApply \o <<"L","i","n","e">>
opRestartLine == sRestart \o <<"L","i","n","e">>
opResetLine == sReset \o <<"L","i","n","e">>
opDeleteCss == sDelete \o <<"C","s","s">>

\* the catalog the routes of the request model were registered from
ExecCatalog == LineCatalog \o <<opDoLogin, opApplyLine, opResetLine, opRestartLine, opDeleteCss>>

\* a template string is written as parts: literal text and markers
Lit(t) == [lit |-> TRUE, text |-> t]
Mark(n) == [lit |-> FALSE, text |-> n]

RECURSIVE Render(_)
Render(parts) ==
  IF parts = <<>> THEN <<>>
  ELSE (IF Head(parts).lit THEN Head(parts).text
        ELSE MarkerOpen \o Head(parts).text \o MarkerClose) \o Render(Tail(parts))

\* the longest template string drawn, in parts
MaxParts == 2

Parts == {Lit(<<"x">>), Lit(<<"%">>), Mark(kExt), Mark(kNo)}

\* no two literals in a row: they would be one literal
PartSeqs ==
  {q \in UNION {[1..n -> Parts] : n \in 1..MaxParts} :
     \A i \in 1..(Len(q) - 1) : ~(q[i].lit /\ q[i + 1].lit)}

\* the data containers drawn: a plain value, a value with a doubled
\* backslash, a null value, and a container that is no object
DataValues ==
  {Obj(kExt :> Str(v1001)), Obj(kExt :> Str(vEscaped)), Obj(kExt :> Null), Null}

FlatTemplates ==
  {(kPattern :> Str(Render(q))) @@ (kData :> d) : q \in PartSeqs, d \in DataValues}

\* a container inside an object that has its own
NestedTemplates ==
  {(kPattern :> Str(Render(<<Mark(kExt)>>)))
     @@ (kRoutePartitionName :>
           Obj((kPattern :> Str(Render(<<Mark(n), Lit(<<"x">>)>>))) @@ (kData :> inner)))
     @@ (kData :> Obj(kExt :> Str(v1001))) :
   n \in {kExt, kNo},
   inner \in {Obj(kExt :> Str(v123)), Obj((kExt :> Str(v123)) @@ (kNo :> Str(vFoo)))}}

TemplateBodies ==
  FlatTemplates \cup NestedTemplates
    \cup {kLine :> Obj(b) : b \in {t \in FlatTemplates : t[kData] = Obj(kExt :> Str(v1001))}}

PlainBodies ==
  { kDescription :> Str(vFoo),
    (kDescription :> Str(vFoo)) @@ (kUuid :> Str(v999)),
    kLine :> Obj(kDescription :> Str(vFoo)),
    (kLine :> Obj((kDescription :> Str(vFoo)) @@ (kUuid :> Str(v999)))) @@ (kName :> Str(vABC)),
    (kLine :> Str(<<>>)) @@ (kDescription :> Str(vFoo)),
    kLine :> Null,
    kLine :> Str(vFoo),
    kLineCapital :> Obj(kDescription :> Str(vFoo)) }

IdentifierBodies ==
  { (kName :> Str(vABC)) @@ (kUuid :> Str(v999)),
    (kName :> Str(<<>>)) @@ (kUuid :> Str(v999)),
    (kName :> Str(<<>>)) @@ (kUuid :> Str(<<>>)),
    kName :> Str(vABC),
    kUuid :> Null }

\* express.json() leaves {} where the request has no JSON body
BodiesFor(method) ==
  LET c == Category(method)
  IN IF c \in {"add", "update", "other"}
     THEN {EmptyObject} \cup PlainBodies \cup TemplateBodies
     ELSE IF c \in {"remove", "command"}
     THEN {EmptyObject} \cup IdentifierBodies
            \cup {(kPattern :> Str(Render(<<Mark(kExt)>>))) @@ (kData :> Obj(kExt :> Str(v1001))),
                  (kName :> Str(Render(<<Mark(kExt)>>))) @@ (kData :> Obj(kExt :> Str(v1001)))}
     ELSE {EmptyObject,
           (kPattern :> Str(Render(<<Mark(kExt)>>))) @@ (kData :> Obj(kExt :> Str(v1001)))}

QueriesFor(method) ==
  LET c == Category(method)
  IN IF c = "list"
     THEN {EmptyObject, kName :> Str(vQ), kMethod :> Str(vQ), kDescription :> Str(vQ)}
     ELSE IF c \in {"get", "other"} THEN {EmptyObject, kName :> Str(vQ)}
     ELSE {EmptyObject}

\* the :parameter/:value pairs drawn
PathPairs == {<<kName, vABC>>, <<kUuid, v123>>}

ListShape ==
  (kSearchCriteria :> Obj((kName :> Str(<<>>)) @@ (kDescription :> Str(<<>>))
                           @@ (kCustomerName :> Str(<<>>))))
    @@ (kReturnedTags :> Obj((kName :> Str(<<>>)) @@ (kUuid :> Str(<<>>))))
    @@ (kSkip :> Str(<<>>)) @@ (kFirst :> Str(<<>>))

\* a list shape whose searchCriteria does not declare name
ListShapeNoName ==
  (kSearchCriteria :> Obj((kDescription :> Str(<<>>)) @@ (kCustomerName :> Str(<<>>))))
    @@ (kReturnedTags :> Obj(kUuid :> Str(<<>>)))

IdShape == (kName :> Str(<<>>)) @@ (kUuid :> Str(<<>>))

\* what axlClient.getOperationTags may answer for an operation: a shape, or
\* a rejection (ok FALSE)
TagAnswers(method) ==
  LET c == Category(method)
      shapes == IF c = "list" THEN {ListShape, ListShapeNoName, EmptyObject}
                ELSE IF c = "get" THEN {IdShape, EmptyObject, ListShape}
                ELSE {IdShape}
  IN {[ok |-> TRUE, tags |-> t] : t \in shapes} \cup {[ok |-> FALSE, tags |-> EmptyObject]}

mECONNREFUSED == <<"E","C","O","N","N","R","E","F","U","S","E","D">>
mNotFound == <<"n","o","t"," ","f","o","u","n","d">>
mAlreadyExists == <<"a","l","r","e","a","d","y"," ","e","x","i","s","t","s">>
mInvalid == <<"i","n","v","a","l","i","d">>
mMissingRequired == <<"m","i","s","s","i","n","g"," ","r","e","q","u","i","r","e","d">>
mBoom == <<"b","o","o","m">>

\* execError.response.data as drawn: none, empty, a SOAP fault, a fault
\* whose faultcode is empty, another object, a text
Payloads ==
  { Null, Str(<<>>),
    Obj((kFaultcode :> Str(v123)) @@ (kFaultstring :> Str(vFoo)) @@ (kDetail :> Str(vQ))),
    Obj((kFaultcode :> Str(<<>>)) @@ (kFaultstring :> Str(vFoo))),
    Obj(kDetail :> Str(vQ)),
    Str(mBoom) }

\* the errors executeOperation is drawn to reject with: message is Null
\* when the error has none, data is Null when it has no response data
Failures ==
  {[message |-> m, data |-> Null] :
     m \in {Null, Str(mECONNREFUSED), Str(<<"x">> \o mNotFound), Str(mAlreadyExists),
            Str(mInvalid), Str(mMissingRequired), Str(mBoom),
            Str(mAlreadyExists \o <<" ">> \o mNotFound)}}
    \cup {[message |-> m, data |-> d] :
            m \in {Str(<<"c"," ">> \o mECONNREFUSED), Str(mBoom)},
            d \in Payloads \ {Null}}

\* the results executeOperation is drawn to resolve with
Results == {Null, Str(<<>>), Str(vFoo), Obj(kLine :> Str(vFoo))}

\* process.env.AUTO_SAVE_EXAMPLES === 'true' and what saveRequestAsExample
\* does when it is
AutoSaves == {"off", "success", "error", "throws"}

\* a request reaches the handler of the first route that matches it
Receive ==
  /\ phase = "up"
  /\ pc = "idle"
  /\ \E i \in DOMAIN appRoutes :
       /\ appRoutes[i].path.kind = "axl"
       /\ LET route == appRoutes[FirstMatch(appRoutes, appRoutes[i].verb, appRoutes[i].path)]
          IN \E pair \in (IF route.path.param THEN PathPairs ELSE {<< <<>>, <<>> >>}),
                query \in QueriesFor(route.method),
                body \in BodiesFor(route.method) :
               /\ req' = [method |-> route.method, paramType |-> pair[1],
                          paramValue |-> pair[2], query |-> query, body |-> body,
                          wire |-> body]
               /\ hit' = [verb |-> route.verb, path |-> route.path, method |-> route.method,
                          layer |-> FirstMatch(appRoutes, appRoutes[i].verb, appRoutes[i].path)]
  /\ pc' = "check"
  /\ UNCHANGED <<authVars, docVars, sessionVars, classifyVars, catalog, allOperations, appRoutes, swaggerPaths, phase,
                 tags, sent, backendCalls, res, nextErr, axl>>

\* availableOperations.includes(method)
CatalogLists_always(operations, method) == TRUE

CatalogLists(operations, method) == method \in Range(operations)

NotFoundResponse ==
  Response(404, "NOT_FOUND", Text("Operation is not available in the AXL API"), Null, Null)

\* lines 185-198: the backend's catalog is what it was at startup or has
\* lost the operation since; returnOperations answers with it or rejects
CheckCatalog ==
  /\ pc = "check"
  /\ \E operations \in {allOperations, SelectSeq(allOperations, LAMBDA o : o # req.method)},
         listed \in BOOLEAN :
       /\ axl' = [axl EXCEPT !.listed = listed, !.operations = operations]
       /\ IF listed /\ ~CatalogLists(operations, req.method)
          THEN res' = NotFoundResponse /\ pc' = "done"
          ELSE res' = res /\ pc' = "tags"
  /\ backendCalls' = Append(backendCalls, "returnOperations")
  /\ UNCHANGED <<authVars, docVars, sessionVars, classifyVars, routeVars, req, tags, sent, nextErr>>

\* lines 200-217: tags = await axlClient.getOperationTags(method), {} when
\* it rejects
FetchTags ==
  /\ pc = "tags"
  /\ \E answer \in TagAnswers(req.method) :
       /\ tags' = IF answer.ok THEN answer.tags ELSE EmptyObject
       /\ axl' = [axl EXCEPT !.shape = answer]
  /\ backendCalls' = Append(backendCalls, "getOperationTags")
  /\ pc' = IF Category(req.method) = "list" THEN "fresh" ELSE "shape"
  /\ UNCHANGED <<authVars, docVars, sessionVars, classifyVars, routeVars, req, sent, res, nextErr>>

\* lines 225-240: the list branch fetches the tags once more
FetchFreshTags ==
  /\ pc = "fresh"
  /\ \E answer \in TagAnswers(req.method) :
       /\ tags' = IF answer.ok THEN answer.tags ELSE EmptyObject
       /\ axl' = [axl EXCEPT !.shape = answer]
  /\ backendCalls' = Append(backendCalls, "getOperationTags")
  /\ pc' = "shape"
  /\ UNCHANGED <<authVars, docVars, sessionVars, classifyVars, routeVars, req, sent, res, nextErr>>

\* lines 220-636 without the fetch above: category shaping, the template
\* pass, and the call of axlClient.executeOperation(method, tags)
Transform ==
  /\ pc = "shape"
  /\ LET shaped == ShapeTags(tags, req)
     IN IF ~shaped.ok
        THEN /\ res' = Response(400, "BAD_REQUEST", Text(shaped.message), Null, Null)
             /\ pc' = "done"
             /\ UNCHANGED <<req, tags, sent, backendCalls>>
        ELSE LET processed == TemplatePass(shaped.tags)
             IN /\ tags' = processed
                /\ req' = [req EXCEPT !.body = BodyAfter(req, shaped.tags, processed)]
                /\ sent' = Append(sent, [method |-> req.method, tags |-> processed,
                                          analysed |-> shaped.tags])
                /\ backendCalls' = Append(backendCalls, "executeOperation")
                /\ pc' = "invoked"
                /\ res' = res
  /\ UNCHANGED <<authVars, docVars, sessionVars, classifyVars, routeVars, nextErr, axl>>

\* lines 637-689: the answer to a resolved invocation
SuccessResponse_noFallThrough(result, autoSave) ==
  IF ~Truthy(result)
  THEN Response(200, "", Text("No content returned for operation"), Null, Null)
  ELSE IF autoSave \in {"success", "error"}
  THEN Response(200, "", Null, Null,
                [k |-> "meta", v |-> [result |-> result,
                                      exampleSaved |-> (autoSave = "success")]])
  ELSE IF autoSave = "throws" THEN NoResponse
  ELSE Response(200, "", Null, Null, result)

SuccessResponse(result, autoSave) ==
  IF ~Truthy(result)
  THEN Response(200, "", Text("No content returned for operation"), Null, Null)
  ELSE IF autoSave \in {"success", "error"}
  THEN Response(200, "", Null, Null,
                [k |-> "meta", v |-> [result |-> result,
                                      exampleSaved |-> (autoSave = "success")]])
  ELSE Response(200, "", Null, Null, result)

\* execError.message && execError.message.includes("ECONNREFUSED")
IsConnectivityFailure(e) == IsStr(e.message) /\ Includes(e.message.v, mECONNREFUSED)

\* execError.response && execError.response.data
HasPayload_never(e) == FALSE

HasPayload(e) == Truthy(e.data)

\* soapError.faultcode && soapError.faultstring
IsStructuredFault(soapError) ==
  /\ IsObj(soapError)
  /\ TruthyAt(soapError.v, kFaultcode)
  /\ TruthyAt(soapError.v, kFaultstring)

\* lines 690-731: the answer to a rejected invocation; status 0 when the
\* error is thrown on to the outer catch
ErrorResponse(e, params) ==
  IF IsConnectivityFailure(e)
  THEN Response(503, "SERVICE_UNAVAILABLE",
                Text("Cannot connect to CUCM server. Please check your connection and credentials."),
                Null, Null)
  ELSE IF HasPayload(e)
  THEN IF IsStructuredFault(e.data)
       THEN Response(400, "AXL_ERROR", e.data.v[kFaultstring], Obj(params), Null)
       ELSE Response(400, "AXL_ERROR",
                     IF IsObj(e.data) THEN JSONstringify(e.data) ELSE e.data,
                     Obj(params), Null)
  ELSE NoResponse

\* lines 732-744: the status the outer catch puts on the error
InferStatus_conflictFirst(e) ==
  LET has(t) == IsStr(e.message) /\ Includes(e.message.v, t)
  IN IF has(mAlreadyExists) THEN 409
     ELSE IF has(mNotFound) THEN 404
     ELSE IF has(mInvalid) \/ has(mMissingRequired) THEN 400
     ELSE 500

InferStatus(e) ==
  LET has(t) == IsStr(e.message) /\ Includes(e.message.v, t)
  IN IF has(mNotFound) THEN 404
     ELSE IF has(mAlreadyExists) THEN 409
     ELSE IF has(mInvalid) \/ has(mMissingRequired) THEN 400
     ELSE 500

\* the invocation resolves
Resolve ==
  /\ pc = "invoked"
  /\ \E result \in Results, autoSave \in AutoSaves :
       /\ res' = SuccessResponse(result, autoSave)
       /\ axl' = [axl EXCEPT !.outcome = [resolved |-> TRUE, result |-> result]]
  /\ pc' = "done"
  /\ UNCHANGED <<authVars, docVars, sessionVars, classifyVars, routeVars, req, tags, sent, backendCalls, nextErr>>

\* middleware/error.middleware.ts: the answer of errorHandler to an error
\* that is no JSON syntax error; message is err.message as the handler
\* formats it
errorHandler(err, path) ==
  [status |-> IF err.statusCode # 0 THEN err.statusCode ELSE 500,
   error |-> "Error",
   message |-> [k |-> "formatted", v |-> err.message],
   statusCode |-> IF err.statusCode # 0 THEN err.statusCode ELSE 500,
   path |-> path,
   type |-> "json", by |-> "errorHandler"]

\* Express' last resort when no error middleware takes the error: an HTML
\* page with the error's status
FinalHandler(err) ==
  [status |-> IF err.statusCode \in 400..599 THEN err.statusCode ELSE 500,
   error |-> "", message |-> [k |-> "pre", v |-> err.message],
   type |-> "html", by |-> "finalhandler"]

\* next(err) called by the route at position layer of the stack: Express
\* goes on through the later layers and runs the first error middleware
\* among them
ErrorMiddlewareAfter_any(stack, layer) == \E j \in DOMAIN stack : stack[j] = ErrorMiddleware

ErrorMiddlewareAfter(stack, layer) ==
  \E j \in DOMAIN stack : j > layer /\ stack[j] = ErrorMiddleware

DispatchError(stack, layer, err, path) ==
  IF ErrorMiddlewareAfter(stack, layer) THEN errorHandler(err, path)
  ELSE FinalHandler(err)

\* the invocation rejects
Reject ==
  /\ pc = "invoked"
  /\ \E e \in Failures :
       LET thrown == [statusCode |-> InferStatus(e), message |-> e.message,
                      data |-> e.data]
       IN
       /\ res' = IF ErrorResponse(e, tags) = NoResponse
                 THEN DispatchError(appRoutes, hit.layer, thrown, hit.path)
                 ELSE ErrorResponse(e, tags)
       /\ nextErr' = IF ErrorResponse(e, tags) = NoResponse THEN thrown ELSE nextErr
       /\ axl' = [axl EXCEPT !.outcome = [resolved |-> FALSE, error |-> e]]
  /\ pc' = "done"
  /\ UNCHANGED <<authVars, docVars, sessionVars, classifyVars, routeVars, req, tags, sent, backendCalls>>

\* the handler has answered or called next(): the request and its locals
\* are gone
Return ==
  /\ pc = "done"
  /\ req' = <<>>
  /\ pc' = "idle"
  /\ tags' = <<>>
  /\ sent' = <<>>
  /\ backendCalls' = <<>>
  /\ res' = NoResponse
  /\ nextErr' = NoError
  /\ axl' = NoBackend
  /\ hit' = <<>>
  /\ UNCHANGED <<authVars, docVars, sessionVars, classifyVars, catalog, allOperations, appRoutes, swaggerPaths, phase>>

InitExec ==
  /\ clsOp = <<>>
  /\ clsMap = NoMapping
  /\ clsTag = <<>>
  /\ ExecIdle
  /\ AuthIdle
  /\ DocsIdle
  /\ SessionIdle
  /\ catalog = [ok |-> TRUE, ops |-> ExecCatalog]
  /\ allOperations = <<>>
  /\ appRoutes = <<>>
  /\ swaggerPaths = {}
  /\ phase = "boot"
  /\ hit = <<>>

NextExec ==
  \/ CreateDynamicRoutes
  \/ CatalogAnswered
  \/ Receive
  \/ CheckCatalog
  \/ FetchTags
  \/ FetchFreshTags
  \/ Transform
  \/ Resolve
  \/ Reject
  \/ Return

SpecExec == InitExec /\ [][NextExec]_vars

TypeExec == pc \in {"idle", "check", "tags", "fresh", "shape", "invoked", "done"}

----------------------------------------------------------------------------
(* Properties of the request transformer and executor.                     *)

\* executeOperation has been called for the request in hand
Invoked == sent # <<>>

\* the request has no path parameter pair
NoPathPair == req.paramType = <<>> /\ req.paramValue = <<>>

\* the value under key is there and is neither null nor the empty string
NonEmptyAt(f, key) == key \in DOMAIN f /\ f[key] # Null /\ f[key] # Str(<<>>)

\* C5: for a list* request with a path parameter name=<value> and no query
\* parameters, against a shape whose searchCriteria declares name, the
\* arguments passed to the backend have searchCriteria.name = <value>,
\* every other searchCriteria key the shape declares = "%", and no
\* customerName key even when the shape declares one.
C5_ListByPathName ==
  ( /\ Invoked
    /\ HasPrefixCI(req.method, sList)
    /\ req.paramType = kName
    /\ req.query = EmptyObject
    /\ axl.shape.ok
    /\ kSearchCriteria \in DOMAIN axl.shape.tags
    /\ kName \in DOMAIN axl.shape.tags[kSearchCriteria].v )
  => LET declared == DOMAIN axl.shape.tags[kSearchCriteria].v
         criteria == sent[1].tags[kSearchCriteria].v
     IN /\ sent[1].method = req.method
        /\ DOMAIN criteria = declared \ {kCustomerName}
        /\ criteria[kName] = Str(req.paramValue)
        /\ \A key \in DOMAIN criteria \ {kName} : criteria[key] = Str(Percent)

\* listLines was invoked for /lines/name/ABC against a shape that declares
\* name, description and customerName
C5_Witness ==
  /\ Invoked
  /\ req.method = opListLines
  /\ req.paramType = kName /\ req.paramValue = vABC
  /\ req.query = EmptyObject
  /\ axl.shape = [ok |-> TRUE, tags |-> ListShape]
  /\ sent[1].tags[kSearchCriteria] =
       Obj((kName :> Str(vABC)) @@ (kDescription :> Str(Percent)))

\* the object a body is taken to be by the update branch: what is under the
\* wrapper key when that is an object (a text there counts as the list of
\* its characters), the body itself when the key is missing or holds null
\* or the empty string
UpdateFields(body, wrapper) ==
  IF wrapper \in DOMAIN body /\ body[wrapper].k = "o" THEN body[wrapper].v
  ELSE IF NonEmptyAt(body, wrapper)
  THEN [x \in {<<DigitChars[i]>> : i \in 1..Len(body[wrapper].v)} |->
          Str(<<body[wrapper].v[CHOOSE i \in 1..Len(body[wrapper].v) : <<DigitChars[i]>> = x]>>)]
  ELSE body

\* fields plus the path pair, the pair winning
WithPathPair(fields, r) ==
  [x \in DOMAIN fields \cup {r.paramType} |->
     IF x = r.paramType THEN Str(r.paramValue) ELSE fields[x]]

\* C6 (as the code has it): for every update* request with a path
\* parameter pair, the arguments built by the update branch are the body's
\* fields - taken from inside the wrapper key only when the body holds a
\* truthy value under it; a body whose wrapper key holds null or "" is used
\* as it is, wrapper key included - plus the path pair, whose value
\* overrides a body field of the same name; these are the arguments passed
\* to the backend whenever they hold no data container, and else the
\* template pass is applied to them first.
C6_UpdateFlattened ==
  ( /\ Invoked
    /\ HasPrefixCI(req.method, sUpdate)
    /\ ~NoPathPair )
  => LET built == WithPathPair(UpdateFields(req.wire, kLine), req)
     IN /\ sent[1].method = req.method
        /\ sent[1].analysed = built
        /\ ~HasKeyDeep(built, kData) => sent[1].tags = built
        /\ HasKeyDeep(built, kData) => sent[1].tags = processTemplateVariables(built, kData)

\* C6 as stated: the arguments passed are the fields inside the wrapper key
\* whenever the body carries that key, else the body's fields, plus the
\* path pair; no wrapper key is among them.
C6_Original ==
  ( /\ Invoked
    /\ HasPrefixCI(req.method, sUpdate)
    /\ ~NoPathPair )
  => LET fields == IF kLine \in DOMAIN req.wire
                   THEN (IF req.wire[kLine].k = "o" THEN req.wire[kLine].v ELSE EmptyObject)
                   ELSE req.wire
     IN /\ sent[1].tags = WithPathPair(fields, req)
        /\ kLine \notin DOMAIN sent[1].tags

\* updateLine was invoked for /line/uuid/123 with a wrapped body that has
\* its own uuid: the wrapper is gone and the path's uuid is the one passed
C6_Witness ==
  /\ Invoked
  /\ req.method = opUpdateLine
  /\ req.paramType = kUuid /\ req.paramValue = v123
  /\ req.wire = (kLine :> Obj((kDescription :> Str(vFoo)) @@ (kUuid :> Str(v999))))
                  @@ (kName :> Str(vABC))
  /\ sent[1].tags = (kDescription :> Str(vFoo)) @@ (kUuid :> Str(v123))

IsRemoval(method) == HasPrefixCI(method, sRemove) \/ HasPrefixCI(method, sDelete)

\* the catalog check has answered that the operation is not there
ListedAbsent == axl.listed /\ req.method \notin Range(axl.operations)

\* C7 (as the code has it): for every remove*/delete* request that has no
\* path parameter and whose body has neither a non-empty name nor a
\* non-empty uuid, the backend operation is never invoked and the response
\* is 400 BAD_REQUEST, unless the catalog check has already answered 404
\* NOT_FOUND because the operation is no longer listed; when the body has
\* both name and uuid, name is the identifier used: the arguments are the
\* operation's shape with name set to the body's, the body's uuid left out.
C7_RemoveNeedsIdentifier ==
  ( /\ pc # "idle"
    /\ IsRemoval(req.method)
    /\ NoPathPair )
  => /\ ( ~NonEmptyAt(req.wire, kName) /\ ~NonEmptyAt(req.wire, kUuid) )
        => /\ ~Invoked
           /\ "executeOperation" \notin Range(backendCalls)
           /\ pc = "done" =>
                IF ListedAbsent
                THEN res.status = 404 /\ res.error = "NOT_FOUND"
                ELSE res.status = 400 /\ res.error = "BAD_REQUEST"
     /\ ( NonEmptyAt(req.wire, kName) /\ NonEmptyAt(req.wire, kUuid) /\ Invoked )
        => LET shape == IF axl.shape.ok THEN axl.shape.tags ELSE EmptyObject
           IN sent[1].tags = [x \in DOMAIN shape \cup {kName} |->
                                IF x = kName THEN req.wire[kName] ELSE shape[x]]

\* C7 as stated: such a request is always answered 400 BAD_REQUEST.
C7_Original ==
  ( /\ pc = "done"
    /\ IsRemoval(req.method)
    /\ NoPathPair
    /\ ~NonEmptyAt(req.wire, kName)
    /\ ~NonEmptyAt(req.wire, kUuid) )
  => /\ res.status = 400
     /\ res.error = "BAD_REQUEST"
     /\ ~Invoked

\* removeLine with a body whose name and uuid are both empty was answered
\* 400 after the catalog listed the operation
C7_Witness ==
  /\ pc = "done"
  /\ req.method = opRemoveLine
  /\ NoPathPair
  /\ req.wire = (kName :> Str(<<>>)) @@ (kUuid :> Str(<<>>))
  /\ axl.listed /\ ~ListedAbsent
  /\ res.status = 400
  /\ ~Invoked

\* C9 (as the code has it): for every request the catalog is asked for
\* before anything else; when it answers and the operation name is absent
\* from it, the response is 404 NOT_FOUND and nothing more is asked of the
\* backend, so the operation is never invoked for a name a successful
\* listing does not hold; when the listing itself fails the check is
\* skipped and the request goes on to be shaped and invoked.
C9_CatalogCheckedFirst ==
  /\ (pc \notin {"idle", "check"}) =>
        /\ backendCalls[1] = "returnOperations"
        /\ ListedAbsent =>
             /\ pc = "done"
             /\ res.status = 404 /\ res.error = "NOT_FOUND"
             /\ backendCalls = <<"returnOperations">>
             /\ ~Invoked
        /\ ~ListedAbsent => ~(res.status = 404 /\ res.error = "NOT_FOUND")
  /\ Invoked => ~ListedAbsent

\* C9 as stated: the operation is never invoked for a name that is not in
\* the backend's current catalog, and such a name is answered 404.
C9_Original ==
  /\ Invoked => req.method \in Range(axl.operations)
  /\ (pc = "done" /\ req.method \notin Range(axl.operations))
       => res.status = 404 /\ res.error = "NOT_FOUND"

\* a request for updateLine, which the backend no longer lists, was answered
\* 404 with the catalog listing as the only backend call
C9_Witness ==
  /\ pc = "done"
  /\ req.method = opUpdateLine
  /\ ListedAbsent
  /\ res = NotFoundResponse
  /\ backendCalls = <<"returnOperations">>

\* the error the invocation was rejected with
Rejected == pc = "done" /\ Invoked /\ ~axl.outcome.resolved

\* C10: when the backend invocation fails, the response is chosen in this
\* order: a message containing ECONNREFUSED gives 503 SERVICE_UNAVAILABLE;
\* otherwise a fault payload with both faultcode and faultstring gives 400
\* AXL_ERROR whose message is the faultstring verbatim; otherwise any other
\* fault payload gives 400 AXL_ERROR with the payload stringified (a text
\* payload as it is); only a failure with no payload is passed on, the
\* executor sending no response itself, to the status-inference step.
C10_ErrorMappingOrder ==
  Rejected =>
    LET e == axl.outcome.error
        refused == e.message # Null /\ Includes(e.message.v, mECONNREFUSED)
        payload == e.data # Null /\ e.data # Str(<<>>)
        fault == /\ e.data.k = "o"
                 /\ NonEmptyAt(e.data.v, kFaultcode)
                 /\ NonEmptyAt(e.data.v, kFaultstring)
    IN IF refused
       THEN res.status = 503 /\ res.error = "SERVICE_UNAVAILABLE" /\ nextErr = NoError
       ELSE IF payload /\ fault
       THEN /\ res.status = 400 /\ res.error = "AXL_ERROR"
            /\ res.message = e.data.v[kFaultstring]
            /\ nextErr = NoError
       ELSE IF payload
       THEN /\ res.status = 400 /\ res.error = "AXL_ERROR"
            /\ res.message = (IF e.data.k = "o" THEN JSONstringify(e.data) ELSE e.data)
            /\ nextErr = NoError
       ELSE /\ res.by # "executeAxlOperation"
            /\ nextErr.statusCode \in {400, 404, 409, 500}
            /\ nextErr.message = e.message

\* a failure that is both a refused connection and a SOAP fault was
\* answered 503
C10_Witness ==
  /\ Rejected
  /\ Includes(axl.outcome.error.message.v, mECONNREFUSED)
  /\ axl.outcome.error.data.k = "o"
  /\ NonEmptyAt(axl.outcome.error.data.v, kFaultcode)
  /\ res.status = 503

\* the parts a template string was written from: the one sequence of parts
\* that renders to it, the string as one literal when it holds no marker
Parse(str) ==
  IF \E q \in PartSeqs : Render(q) = str
  THEN CHOOSE q \in PartSeqs : Render(q) = str
  ELSE <<Lit(str)>>

\* a container's value for a name as text, a doubled backslash written once
RECURSIVE Unescaped(_)
Unescaped(t) ==
  IF Len(t) >= 2 /\ t[1] = Backslash /\ t[2] = Backslash
  THEN <<Backslash>> \o Unescaped(SubSeq(t, 3, Len(t)))
  ELSE IF t = <<>> THEN <<>>
  ELSE <<t[1]>> \o Unescaped(Tail(t))

ValueText(v) ==
  IF v.k = "s" THEN Unescaped(v.v)
  ELSE IF v = Null THEN <<"n","u","l","l">>
  ELSE <<"[","o","b","j","e","c","t"," ","O","b","j","e","c","t","]">>

\* parts with each marker replaced from the first of the containers (given
\* outermost first) that has its name; a marker none of them names stays
RECURSIVE Substituted(_, _)
Substituted(parts, containers) ==
  IF parts = <<>> THEN <<>>
  ELSE LET part == Head(parts)
           naming == {i \in DOMAIN containers : part.text \in DOMAIN containers[i]}
           first == CHOOSE i \in naming : \A j \in naming : i <= j
       IN (IF part.lit THEN part.text
           ELSE IF naming = {} THEN Render(<<part>>)
           ELSE ValueText(containers[first][part.text]))
            \o Substituted(Tail(parts), containers)

\* an argument tree after substitution: containers are the data containers
\* of the enclosing objects, outermost first
RECURSIVE Expanded(_, _)
Expanded(f, containers) ==
  LET mine == IF kData \in DOMAIN f /\ f[kData].k = "o"
              THEN Append(containers, f[kData].v) ELSE containers
  IN [key \in DOMAIN f \ {kData} |->
        IF f[key].k = "s" THEN Str(Substituted(Parse(f[key].v), mine))
        ELSE IF f[key].k = "o" THEN Obj(Expanded(f[key].v, mine))
        ELSE f[key]]

TemplateExample ==
  (kPattern :> Str(<<"%","%","_","e","x","t","_","%","%">>))
    @@ (kData :> Obj(kExt :> Str(v1001)))

\* C8 (as the code has it): after the template pass the arguments sent to
\* the backend contain no key equal to the data-container identifier at any
\* depth, and every %%_name_%% marker in a string value anywhere inside an
\* object holding a container is replaced by the value for name of the
\* outermost enclosing container that has the name, with each doubled
\* backslash of the value written once; a marker whose name no enclosing
\* container has stays as it is.  {pattern: %%_ext_%%, _data: {ext: 1001}}
\* becomes exactly {pattern: 1001}.
C8_TemplatePass ==
  Invoked =>
    /\ ~HasKeyDeep(sent[1].tags, kData)
    /\ sent[1].tags = Expanded(sent[1].analysed, <<>>)
    /\ sent[1].analysed = TemplateExample => sent[1].tags = (kPattern :> Str(v1001))

\* the direct string values of the objects of a tree that hold a container
\* which is an object, each with that container and the value it has after
\* the pass
RECURSIVE HeldStrings(_, _)
HeldStrings(before, after) ==
  (IF kData \in DOMAIN before /\ before[kData].k = "o"
   THEN {[was |-> before[key].v, is |-> after[key], container |-> before[kData].v] :
           key \in {x \in DOMAIN before \ {kData} : before[x].k = "s"}}
   ELSE {})
  \cup UNION {HeldStrings(before[key].v, after[key].v) :
                key \in {x \in DOMAIN before \ {kData} :
                           before[x].k = "o" /\ x \in DOMAIN after /\ after[x].k = "o"}}

\* parts with each marker replaced by the container's value as it stands
RECURSIVE Verbatim(_, _)
Verbatim(parts, container) ==
  IF parts = <<>> THEN <<>>
  ELSE (IF Head(parts).lit THEN Head(parts).text
        ELSE IF container[Head(parts).text].k = "s" THEN container[Head(parts).text].v
        ELSE ValueText(container[Head(parts).text]))
         \o Verbatim(Tail(parts), container)

\* C8 as stated: no container key is left, and in every object holding a
\* container each marker the container has a value for is replaced by that
\* value.
C8_Original ==
  Invoked =>
    /\ ~HasKeyDeep(sent[1].tags, kData)
    /\ \A h \in HeldStrings(sent[1].analysed, sent[1].tags) :
         (\A i \in DOMAIN Parse(h.was) :
            Parse(h.was)[i].lit \/ Parse(h.was)[i].text \in DOMAIN h.container)
         => h.is = Str(Verbatim(Parse(h.was), h.container))

\* addLine was invoked with a body whose inner object has a container of
\* its own naming ext as the outer one does: both markers took the outer
\* value, and neither container is left
C8_Witness ==
  /\ Invoked
  /\ req.method = opAddLine
  /\ sent[1].analysed =
       kLine :> Obj((kPattern :> Str(Render(<<Mark(kExt)>>)))
                     @@ (kRoutePartitionName :>
                           Obj((kPattern :> Str(Render(<<Mark(kExt), Lit(<<"x">>)>>)))
                                @@ (kData :> Obj(kExt :> Str(v123)))))
                     @@ (kData :> Obj(kExt :> Str(v1001))))
  /\ sent[1].tags =
       kLine :> Obj((kPattern :> Str(v1001))
                     @@ (kRoutePartitionName :> Obj(kPattern :> Str(v1001 \o <<"x">>))))

----------------------------------------------------------------------------
(* Errors handed to next().                                                *)

\* C11: every error that an operation route hands to next() is answered by
\* the JSON error handler, with a body holding error, message, statusCode
\* and path, and never by an HTML error page.
C11_ErrorsAnsweredAsJson ==
  (pc = "done" /\ nextErr.statusCode # 0) =>
    /\ res.type = "json"
    /\ res.by = "errorHandler"
    /\ res.statusCode = nextErr.statusCode
    /\ res.path = hit.path

(***************************************************************************)
(* The backend calls that precede a validation failure                     *)
(***************************************************************************)

\* the request was answered 400 BAD_REQUEST by the transformer
ValidationRejected ==
  pc = "done" /\ res.by = "executeAxlOperation"
  /\ res.status = 400 /\ res.error = "BAD_REQUEST"

\* C12 (as the code has it): whenever the transformer rejects a request
\* with 400 BAD_REQUEST, the operation is a get, a remove/delete, an apply
\* or a reset (never a do, a list, an add or an update), the operation has
\* not been invoked, and exactly two backend calls have been made for the
\* request before the answer: the catalog listing, then the argument-shape
\* fetch.
C12_ValidationBeforeInvocation ==
  ValidationRejected =>
    /\ Category(req.method) \in {"get", "remove", "command"}
    /\ ~StartsWith(ToLowerCase(req.method), sDo)
    /\ ~Invoked
    /\ sent = <<>>
    /\ backendCalls = <<"returnOperations", "getOperationTags">>

\* C12 as stated: a request the transformer rejects with 400 BAD_REQUEST is
\* answered without any backend call having been made for it.
C12_Original ==
  ValidationRejected => backendCalls = <<>>

\* applyLine with an empty body was rejected by the transformer after the
\* catalog listing and the argument-shape fetch
C12_Witness ==
  /\ ValidationRejected
  /\ req.method = opApplyLine
  /\ req.wire = EmptyObject
  /\ req.paramValue = <<>>
  /\ backendCalls = <<"returnOperations", "getOperationTags">>

(***************************************************************************)
(* Startup with a backend whose catalog cannot be fetched                  *)
(***************************************************************************)

\* app.get(path, ...) has been called for the administrative path
Registered(path) == \E i \in DOMAIN appRoutes : appRoutes[i] = Bound("get", path, <<>>)

\* C13: if the catalog fetch fails at startup, createDynamicRoutes still
\* runs to its end (the step that finishes it is enabled and nothing is
\* thrown), no operation route is bound and no operation is kept, and
\* /api/setup/methods, /api/debug/operations, /api/debug/routes and
\* /api/debug/refresh-examples are registered.
C13_CatalogFailureAtStartup ==
  ~catalog.ok =>
    /\ phase = "listening" => ENABLED CatalogAnswered
    /\ AxlRoutes = {}
    /\ phase = "up" =>
         /\ allOperations = <<>>
         /\ Registered(SetupMethodsPath)
         /\ Registered(DebugOperationsPath)
         /\ Registered(DebugRoutesPath)
         /\ Registered(DebugRefreshPath)

\* startup has finished although the catalog fetch failed
C13_Witness ==
  /\ ~catalog.ok
  /\ phase = "up"
  /\ Len(appRoutes) = 7
  /\ Registered(DebugRefreshPath)

(***************************************************************************)
(* Documentation regeneration against startup registration                 *)
(***************************************************************************)

\* the (path, verb) entries of a documentation model
PathVerbs(sw) == {[path |-> e.path, verb |-> e.verb] : e \in sw}

\* C14: after startup, however many times GET /api/debug/refresh-examples
\* has run, swaggerSpec.paths holds the same set of (path, verb) entries
\* that startup registration produced.
C14_RefreshKeepsPaths ==
  phase = "up" => PathVerbs(swaggerPaths) = PathVerbs(Startup(catalog).sw)

(***************************************************************************)
(* The URL segment of a list operation                                     *)
(***************************************************************************)

opListPhone == sList \o <<"P","h","o","n","e">>

\* X of list<X>
ListedResource(name) == SubSeq(name, Len(sList) + 1, Len(name))

opAddRoutePart == sAdd \o <<"R","o","u","t","e","P","a","r","t">>
opAddAddOn == sAdd \o <<"A","d","d","O","n">>

\* the name starts, in any casing, with one of get, list, add, update,
\* remove, delete and goes on after it
StrippedPrefix(name) ==
  {p \in Range(TagPrefixes) : HasPrefixCI(name, p) /\ Len(name) > Len(p)}

\* the name without that prefix; the whole name when it has none
AfterPrefix(name) ==
  IF StrippedPrefix(name) = {} THEN name
  ELSE SubSeq(name, Len(CHOOSE p \in StrippedPrefix(name) : TRUE) + 1, Len(name))

\* t is r with its first character in lower case and every other character
\* as it is
CaseFaithful(t, r) ==
  /\ Len(t) = Len(r)
  /\ \A i \in DOMAIN r : t[i] = IF i = 1 THEN LowerChar(r[i]) ELSE r[i]

\* C16 (as the code has it): for every operation name the wrapper tag is
\* the name without its leading get, list, add, update, remove or delete
\* (in any casing, and only when something follows it; a name with none of
\* these prefixes, such as applyLine, is kept whole), with the first
\* remaining character in lower case and every other character unchanged
\* (addRoutePart gives routePart); applying the derivation to its own
\* result returns that result exactly when the result does not itself
\* start with one of the six prefixes followed by something (addAddOn
\* gives addOn, and addOn gives on).
C16_WrapperTagCaseFaithful ==
  clsOp # <<>> =>
    /\ CaseFaithful(clsTag, AfterPrefix(clsOp))
    /\ (getResourceTagFromMethod(clsTag) = clsTag) <=> (StrippedPrefix(clsTag) = {})
    /\ clsOp = opAddRoutePart => clsTag = <<"r","o","u","t","e","P","a","r","t">>
    /\ clsOp = opAddAddOn => /\ clsTag = <<"a","d","d","O","n">>
                              /\ getResourceTagFromMethod(clsTag) = <<"o","n">>

\* C16 as stated: for every operation name the derivation gives the name
\* without its verb prefix, first character lower-cased and the rest
\* unchanged, and applying it to its own result returns that result.
C16_Original ==
  clsOp # <<>> =>
    /\ CaseFaithful(clsTag, AfterPrefix(clsOp))
    /\ getResourceTagFromMethod(clsTag) = clsTag

\* addRoutePart has been given the wrapper tag routePart, which the
\* derivation maps to itself
C16_Witness ==
  /\ clsOp = opAddRoutePart
  /\ clsTag = <<"r","o","u","t","e","P","a","r","t">>
  /\ getResourceTagFromMethod(clsTag) = clsTag

(***************************************************************************)
(* The arguments of an add operation                                       *)
(***************************************************************************)

\* the case-preserved wrapper tag of an operation: what follows the verb
\* prefix, first character in lower case
WrapperTagOf(method) ==
  LET r == AfterPrefix(method)
  IN [i \in 1..Len(r) |-> IF i = 1 THEN LowerChar(r[i]) ELSE r[i]]

getHttpMethodFromAxlMethod(axlMethod) ==
  LET methodLower == ToLowerCase(axlMethod)
  IN IF StartsWith(methodLower, sAdd) THEN "post"
     ELSE IF StartsWith(methodLower, sUpdate) THEN "patch"
     ELSE IF StartsWith(methodLower, sRemove) \/ StartsWith(methodLower, sDelete) THEN "delete"
     ELSE IF StartsWith(methodLower, sGet) \/ StartsWith(methodLower, sList) THEN "get"
     ELSE IF StartsWith(methodLower, sApply) \/ StartsWith(methodLower, sReset)
             \/ StartsWith(methodLower, sDo) THEN "post"
     ELSE "null"

\* method-mapper.ts getResourceFromMethod: the lower-cased name without the
\* last of the prefixes it starts with (the kebab-case replacement finds no
\* upper-case letter in a lower-cased name)
getResourceFromMethod(axlMethod) ==
  LET methodLower == ToLowerCase(axlMethod)
      found == {i \in DOMAIN TagPrefixes : StartsWith(methodLower, TagPrefixes[i])}
  IN IF found = {} THEN methodLower
     ELSE LET prefix == TagPrefixes[CHOOSE i \in found : \A j \in found : j <= i]
          IN SubSeq(methodLower, Len(prefix) + 1, Len(methodLower))

\* a folder below src/examples/resources
Folder(resource, verb) == [resource |-> resource, verb |-> verb]
NoFolder == Folder(<<>>, "null")

\* getExampleDirectoryPath(method, httpMethod); null when the resource is ''
getExampleDirectoryPath(method, httpMethod) ==
  LET resource == getResourceFromMethod(method)
  IN IF resource = <<>> THEN NoFolder
     ELSE Folder(ToLowerCase(resource), httpMethod)

\* saveRequestAsExample: the folder the request example is written to
SaveFolder(method) ==
  LET httpMethod == getHttpMethodFromAxlMethod(method)
  IN IF httpMethod = "null" THEN NoFolder
     ELSE getExampleDirectoryPath(method, httpMethod)

\* addPathToSwagger with getFileBasedExamples: the folder read for the
\* route /api/axl/<route> and its verb
LookupFolder(mapping) == Folder(ToLowerCase(mapping.route), mapping.httpMethod)

\* C19: for every add*, update* and remove*/delete* operation the folder
\* the auto-save feature stores a request example in is the folder the
\* documentation lookup reads for the operation's route: same resource
\* segment, same verb.
C19_SaveFolderIsLookupFolder ==
  ( \/ HasPrefixCI(clsOp, sAdd) \/ HasPrefixCI(clsOp, sUpdate)
    \/ HasPrefixCI(clsOp, sRemove) \/ HasPrefixCI(clsOp, sDelete) )
  => SaveFolder(clsOp) = LookupFolder(clsMap)

(***************************************************************************)
(* The order in which operation routes are bound                           *)
(***************************************************************************)

\* list<X> and get<Y> name the same resource: X is Y, or Y with an "s"
SharesStem(listOp, getOp) ==
  LET x == ToLowerCase(SubSeq(listOp, Len(sList) + 1, Len(listOp)))
      y == ToLowerCase(SubSeq(getOp, Len(sGet) + 1, Len(getOp)))
  IN x = y \/ x = y \o <<"s">>

\* C20: for every catalog, in the order in which createDynamicRoutes binds
\* routes, every list* operation of the catalog comes before every get*
\* operation of the catalog that shares its resource stem.
C20_ListBoundBeforeGet ==
  phase = "up" =>
    \A i, j \in DOMAIN appRoutes :
      ( /\ appRoutes[i].method \in Range(allOperations)
        /\ appRoutes[j].method \in Range(allOperations)
        /\ HasPrefixCI(appRoutes[i].method, sList)
        /\ HasPrefixCI(appRoutes[j].method, sGet)
        /\ SharesStem(appRoutes[i].method, appRoutes[j].method) )
      => i < j

(***************************************************************************)
(* A list request filtered through the query string only                   *)
(***************************************************************************)

\* the query names a filter (the key "method" is never one)
QueryFilters == \E x \in DOMAIN req.query : x # kMethod

\* C21: for every list* request that filters only through query-string
\* parameters (no path parameter), in the arguments passed to the backend
\* every searchCriteria key not named in the query equals "%", customerName
\* is absent, and the keys the query names hold the query's values.
C21_QueryOnlyListDefaults ==
  ( /\ Invoked
    /\ HasPrefixCI(req.method, sList)
    /\ NoPathPair
    /\ QueryFilters
    /\ axl.shape.ok
    /\ kSearchCriteria \in DOMAIN axl.shape.tags )
  => LET criteria == sent[1].tags[kSearchCriteria].v
     IN /\ kCustomerName \notin DOMAIN criteria
        /\ \A key \in DOMAIN criteria :
             criteria[key] = IF key \in DOMAIN req.query /\ key # kMethod
                             THEN req.query[key] ELSE Str(Percent)

(***************************************************************************)
(* The template pass across the operation categories                       *)
(***************************************************************************)

\* every string held anywhere in a tree of arguments
RECURSIVE StringsOf(_)
StringsOf(f) ==
  {f[key].v : key \in {x \in DOMAIN f : f[x].k = "s"}}
    \cup UNION {StringsOf(f[key].v) : key \in {x \in DOMAIN f : f[x].k = "o"}}

\* the request body carries a data container with a text value for a name
BodyContainer ==
  IF kData \in DOMAIN req.wire /\ req.wire[kData].k = "o" THEN req.wire[kData].v
  ELSE EmptyObject

\* C22: for requests of every category alike, when the request body
\* carries a data container, no string in the arguments passed to the
\* backend still contains a %%_name_%% marker whose name is a key of that
\* container.
C22_NoMarkerLeftInAnyCategory ==
  Invoked =>
    \A name \in DOMAIN BodyContainer :
      \A text \in StringsOf(sent[1].tags) :
        ~Includes(text, MarkerOpen \o name \o MarkerClose)

(***************************************************************************)
(* apply, reset and do requests                                            *)
(***************************************************************************)

\* the body has neither a non-empty name nor a non-empty uuid
NoIdentifier == ~NonEmptyAt(req.wire, kName) /\ ~NonEmptyAt(req.wire, kUuid)

\* the body's fields, without a name or uuid that is null or empty
FlatFields(body) ==
  [x \in {y \in DOMAIN body : y \notin {kName, kUuid} \/ NonEmptyAt(body, y)} |-> body[x]]

\* C23 (as the code has it): for apply* and reset* requests with no path
\* parameter, a body with neither a non-empty name nor a non-empty uuid is
\* never invoked and is answered 400 BAD_REQUEST, unless the catalog check
\* has already answered 404 NOT_FOUND because the operation is no longer
\* listed; a do* request with the same body (an empty one included) is
\* answered 404 in that same case and is invoked in every other, with a
\* flat, unwrapped argument object built from the body's fields alone (a
\* null or empty name or uuid left out, nothing of the backend's skeleton),
\* which is passed as it is when it holds no data container and after the
\* template pass when it does.
C23_CommandIdentifier ==
  ( pc # "idle" /\ NoPathPair /\ NoIdentifier )
  => /\ ( HasPrefixCI(req.method, sApply) \/ HasPrefixCI(req.method, sReset) )
        => /\ ~Invoked
           /\ pc = "done" =>
                IF ListedAbsent
                THEN res.status = 404 /\ res.error = "NOT_FOUND"
                ELSE res.status = 400 /\ res.error = "BAD_REQUEST"
     /\ HasPrefixCI(req.method, sDo)
        => /\ pc = "done" =>
                IF ListedAbsent
                THEN res.status = 404 /\ res.error = "NOT_FOUND" /\ ~Invoked
                ELSE Invoked
           /\ Invoked =>
                LET built == FlatFields(req.wire)
                IN /\ sent[1].method = req.method
                   /\ sent[1].analysed = built
                   /\ ~HasKeyDeep(built, kData) => sent[1].tags = built
                   /\ HasKeyDeep(built, kData)
                        => sent[1].tags = processTemplateVariables(built, kData)

\* C23 as stated: such an apply* or reset* request is answered 400
\* BAD_REQUEST without an invocation, and such a do* request is invoked
\* with a flat argument object holding only the body's fields.
C23_Original ==
  ( pc = "done" /\ NoPathPair /\ NoIdentifier )
  => /\ ( HasPrefixCI(req.method, sApply) \/ HasPrefixCI(req.method, sReset) )
        => res.status = 400 /\ res.error = "BAD_REQUEST" /\ ~Invoked
     /\ HasPrefixCI(req.method, sDo)
        => /\ Invoked
           /\ \A x \in DOMAIN sent[1].tags :
                x \in DOMAIN req.wire /\ sent[1].tags[x] = req.wire[x]

\* doLogin with an empty body was invoked with no arguments
C23_Witness ==
  /\ pc = "done"
  /\ req.method = opDoLogin
  /\ req.wire = EmptyObject
  /\ sent = <<[method |-> opDoLogin, tags |-> EmptyObject, analysed |-> EmptyObject]>>

(***************************************************************************)
(* The companion GET route of an add operation                             *)
(***************************************************************************)

\* the add operations of the catalog whose bare path is the one requested
AddOperationsAt(path) ==
  {allOperations[i] : i \in {j \in DOMAIN allOperations :
      /\ HasPrefixCI(allOperations[j], sAdd)
      /\ AxlPath(mapAxlMethodToHttp(allOperations[j]).route, FALSE) = path}}

\* C24: for every add-classified operation add<X> of the catalog, the
\* prefix in any casing, a GET on its bare path is dispatched to list<X>
\* (X as the catalog writes it) and never to an add operation.
C24_CompanionRunsList ==
  ( /\ phase = "up" /\ hit # <<>>
    /\ hit.verb = "get"
    /\ AddOperationsAt(hit.path) # {} )
  => /\ ~HasPrefixCI(hit.method, sAdd)
     /\ \E op \in AddOperationsAt(hit.path) :
          hit.method = sList \o SubSeq(op, Len(sAdd) + 1, Len(op))

(***************************************************************************)
(* The status of an uncaught error                                         *)
(***************************************************************************)

\* the documented inference rules, in order: the texts looked for and the
\* status they give
StatusRules ==
  << [texts |-> {mNotFound}, status |-> 404],
     [texts |-> {mAlreadyExists}, status |-> 409],
     [texts |-> {mInvalid, mMissingRequired}, status |-> 400] >>

\* the status of the first rule one of whose texts the message contains
RuleStatus(message) ==
  LET matching == {i \in DOMAIN StatusRules :
                     /\ message.k = "s"
                     /\ \E t \in StatusRules[i].texts : Includes(message.v, t)}
  IN IF matching = {} THEN 500
     ELSE StatusRules[CHOOSE i \in matching : \A j \in matching : i <= j].status

\* C25: for every error executeAxlOperation does not answer itself, the
\* status put on the error is the one of the first matching rule - "not
\* found" 404, then "already exists" 409, then "invalid" or "missing
\* required" 400, otherwise 500 (an error without a message included) -
\* and the status of the response delivered is that status.
C25_StatusInferredFromMessage ==
  ( pc = "done" /\ nextErr.statusCode # 0 )
  => /\ nextErr.statusCode = RuleStatus(nextErr.message)
     /\ res.status = nextErr.statusCode

\* an error whose message holds both "already exists" and "not found" was
\* delivered as 404
C25_Witness ==
  /\ pc = "done"
  /\ nextErr.statusCode = 404
  /\ nextErr.message = Str(mAlreadyExists \o <<" ">> \o mNotFound)
  /\ res.status = 404

---------------------------------------------------------------------------
(* The documentation read while a refresh is running                        *)

\* the last GET /api-docs.json was served while a refresh handler was
\* between its start and its answer
ReadInFlight == docsRead.inFlight > 0

---------------------------------------------------------------------------
(* The request body after the template pass                                 *)

\* C27: processTemplateVariables leaves the object passed to it unchanged,
\* so after an add operation was transformed and invoked the request body,
\* which the add branch placed inside the arguments and which the auto-save
\* writes as the example, is the body the request arrived with
C27_BodyUnchangedByTemplatePass ==
  (Invoked /\ Category(req.method) = "add") => req.body = req.wire

---------------------------------------------------------------------------
(* Routes that an earlier route of the same verb and path hides              *)

\* the operation a request with this verb and path is dispatched to
DispatchedTo(verb, path) ==
  LET k == FirstMatch(appRoutes, verb, path)
  IN IF k = 0 THEN <<>> ELSE appRoutes[k].method

\* C28: for every catalog, GET /api/axl/<x>/<parameter>/<value> is
\* dispatched to get<X> for every get<X> of the catalog, also when list<X>
\* derives the same URL segment, and every operation of the catalog has a
\* route that no earlier route with the same verb and path hides
C28_NoOperationShadowed ==
  phase = "up" =>
    /\ \A i \in DOMAIN allOperations :
         IsGetName(allOperations[i]) =>
           DispatchedTo("get", AxlPath(GetSegment(allOperations[i]), TRUE))
             = allOperations[i]
    /\ \A i \in DOMAIN allOperations :
         \E j \in DOMAIN appRoutes :
           /\ appRoutes[j].method = allOperations[i]
           /\ FirstMatch(appRoutes, appRoutes[j].verb, appRoutes[j].path) = j
    /\ \A i \in DOMAIN allOperations :
         ( /\ IsGetName(allOperations[i])
           /\ hit # <<>>
           /\ hit.verb = "get"
           /\ hit.path = AxlPath(GetSegment(allOperations[i]), TRUE) )
         => hit.method = allOperations[i]

---------------------------------------------------------------------------
(* One outcome for every run of executeAxlOperation                         *)

\* the handler itself sent the response
HandlerAnswered == res.status # 0 /\ res.by = "executeAxlOperation"

\* the handler handed an error to next()
NextCalled == nextErr.statusCode # 0

\* the calls of axlClient.executeOperation made for the request
Invocations == {i \in DOMAIN backendCalls : backendCalls[i] = "executeOperation"}

\* C29: every run of executeAxlOperation ends with exactly one outcome:
\* the handler has sent a response or has handed an error to next(), never
\* both and, once it has ended, never neither; no outcome exists before it
\* ends, and the backend operation is invoked at most once per request
C29_ExactlyOneOutcome ==
  /\ ~(HandlerAnswered /\ NextCalled)
  /\ pc = "done" => (HandlerAnswered \/ NextCalled)
  /\ pc # "done" => (~HandlerAnswered /\ ~NextCalled)
  /\ Cardinality(Invocations) <= 1
  /\ Len(sent) = Cardinality(Invocations)

\* a request whose example could not be saved was answered by the handler,
\* once, after one invocation, and nothing was handed to next()
C29_Witness ==
  /\ pc = "done"
  /\ HandlerAnswered
  /\ ~NextCalled
  /\ Cardinality(Invocations) = 1
  /\ res.status = 200
  /\ res.body = Obj(kLine :> Str(vFoo))

----------------------------------------------------------------------------
(* middleware/api-key.middleware.ts: checkApiKey.  A header is undefined   *)
(* or a string; a query parameter may also be an array (a repeated         *)
(* parameter).  The key name is the configured one throughout.             *)

\* !apiKey, and the truthiness of a Kong header
Falsy(value) == value.k = "undefined" \/ (value.k = "string" /\ value.v = "")

\* apiKey === apiKeyConfig.devKey
KeyAccepted_any(apiKey, devKey) == TRUE

KeyAccepted(apiKey, devKey) == apiKey.k = "string" /\ apiKey.v = devKey

AuthFailed(message) ==
  [status |-> 401, error |-> "AUTHENTICATION_FAILED", message |-> message, statusCode |-> 401]

\* the call checkApiKey(req, res, next): how often next is called and the
\* response sent
checkApiKey(config, r) ==
  IF ~config.enabled
  THEN [next |-> 1, res |-> [status |-> 0]]
  ELSE IF config.production /\ (~Falsy(r.consumerId) \/ ~Falsy(r.anonymous))
  THEN [next |-> 1, res |-> [status |-> 0]]
  ELSE LET apiKey == IF config.location = "header" THEN r.header
                     ELSE IF config.location = "query" THEN r.query
                     ELSE Undefined
       IN IF Falsy(apiKey)
          THEN [next |-> 0, res |-> AuthFailed("API key is required")]
          ELSE IF KeyAccepted(apiKey, config.devKey)
          THEN [next |-> 1, res |-> [status |-> 0]]
          ELSE [next |-> 0, res |-> AuthFailed("Invalid API key provided")]

DevKeys == {"cisco-axl-rest-api-dev-key", "k2"}
KeyTexts == DevKeys \cup {"", "invalid-api-key"}

ApiKeyConfigs ==
  [enabled : BOOLEAN, location : {"header", "query", "cookie"},
   devKey : DevKeys, production : BOOLEAN]

AuthRequests ==
  [header : {Undefined} \cup {Header(v) : v \in KeyTexts},
   query : {Undefined} \cup {Header(v) : v \in KeyTexts} \cup {Many(v) : v \in DevKeys},
   consumerId : {Undefined, Header("c1")},
   anonymous : {Undefined, Header(""), Header("true")}]

InitAuth ==
  /\ clsOp = <<>>
  /\ clsMap = NoMapping
  /\ clsTag = <<>>
  /\ RoutesIdle
  /\ ExecIdle
  /\ apiKeyConfig \in ApiKeyConfigs
  /\ authReq = NoRequest
  /\ authNext = 0
  /\ authRes = [status |-> 0]
  /\ DocsIdle
  /\ SessionIdle

\* one request reaches the middleware
CheckApiKey ==
  \E r \in AuthRequests :
    /\ authReq' = r
    /\ authNext' = checkApiKey(apiKeyConfig, r).next
    /\ authRes' = checkApiKey(apiKeyConfig, r).res
    /\ UNCHANGED <<apiKeyConfig, docVars, sessionVars, classifyVars, routeVars, execVars>>

NextAuth == CheckApiKey

SpecAuth == InitAuth /\ [][NextAuth]_vars

\* the request has been through the middleware
AuthChecked == authNext = 1 \/ authRes.status # 0

\* Kong has authenticated the request: production mode and a consumer header
GatewayAuthenticated ==
  /\ apiKeyConfig.production
  /\ \/ (authReq.consumerId.k = "string" /\ authReq.consumerId.v # "")
     \/ (authReq.anonymous.k = "string" /\ authReq.anonymous.v # "")

\* what the request carries at the configured location (nothing when the
\* location is neither header nor query)
SuppliedKey ==
  IF apiKeyConfig.location = "header" THEN authReq.header
  ELSE IF apiKeyConfig.location = "query" THEN authReq.query
  ELSE Undefined

----------------------------------------------------------------------------
(* middleware/auth.middleware.ts: the cached result of the AXL              *)
(* authentication test.                                                     *)

\* the minutes the clock runs past Boot
MaxElapsed == 6

\* the calls that may wait for testAuthentication at once
MaxChecks == 2

MissingConfiguration == "Missing AXL configuration (host, user, or password)"
UnknownError == "Unknown authentication error"

\* error.message of a failed testAuthentication ("" when it has none)
AuthFailures == {"Authentication failed", ""}

\* line 19: isAuthenticated && (now - lastCheckTime < AUTH_CACHE_DURATION)
CacheFresh_anyResult(authenticated, last, t) == t < last + AUTH_CACHE_DURATION

CacheFresh(authenticated, last, t) ==
  authenticated /\ t < last + AUTH_CACHE_DURATION

\* checkAuthentication() up to its return or its await, called by the
\* timer or for a request
checkAuthentication(by) ==
  /\ callBit' = ~callBit
  /\ IF CacheFresh(isAuthenticated, lastCheckTime, now)
     THEN /\ lastCall' = "cached"
          /\ gate' = IF by = "request" THEN "next" ELSE gate
          /\ UNCHANGED <<isAuthenticated, authError, checks>>
     ELSE IF ~axlConfigured
     THEN /\ authError' = MissingConfiguration
          /\ isAuthenticated' = FALSE
          /\ lastCall' = "rejected"
          /\ gate' = IF by = "request" THEN "401" ELSE gate
          /\ UNCHANGED checks
     ELSE /\ Len(checks) < MaxChecks
          /\ checks' = Append(checks, [at |-> now, by |-> by])
          /\ lastCall' = "backend"
          /\ gate' = IF by = "request" THEN "waiting" ELSE gate
          /\ UNCHANGED <<isAuthenticated, authError>>

InitSession ==
  /\ clsOp = <<>>
  /\ clsMap = NoMapping
  /\ clsTag = <<>>
  /\ RoutesIdle
  /\ ExecIdle
  /\ AuthIdle
  /\ DocsIdle
  /\ now = Boot
  /\ axlConfigured \in BOOLEAN
  /\ isAuthenticated = FALSE
  /\ authError = "null"
  /\ lastCheckTime = 0
  /\ timerDue = 0
  /\ checks = <<>>
  /\ lastCall = "none"
  /\ callBit = FALSE
  /\ gate = "none"

\* startAuthenticationCheck(): arms the interval and makes the first call
StartAuthenticationCheck ==
  /\ timerDue = 0
  /\ timerDue' = now + AUTH_CACHE_DURATION
  /\ checkAuthentication("timer")
  /\ UNCHANGED <<authVars, docVars, classifyVars, routeVars, execVars,
                 now, axlConfigured, lastCheckTime>>

\* the setInterval callback
PeriodicCheck ==
  /\ timerDue # 0
  /\ now >= timerDue
  /\ timerDue' = timerDue + AUTH_CACHE_DURATION
  /\ checkAuthentication("timer")
  /\ UNCHANGED <<authVars, docVars, classifyVars, routeVars, execVars,
                 now, axlConfigured, lastCheckTime>>

\* requireAuth for GET /health: lastCheckTime = 0; next()
RequireAuthHealth ==
  /\ lastCheckTime' = 0
  /\ gate' = "next"
  /\ UNCHANGED <<authVars, docVars, classifyVars, routeVars, execVars,
                 now, axlConfigured, isAuthenticated, authError, timerDue,
                 checks, lastCall, callBit>>

\* requireAuth for a path that is not protected: next()
RequireAuthOpen ==
  /\ gate' = "next"
  /\ UNCHANGED <<authVars, docVars, classifyVars, routeVars, execVars,
                 now, axlConfigured, isAuthenticated, authError, lastCheckTime,
                 timerDue, checks, lastCall, callBit>>

\* requireAuth for /api-explorer, /api-docs.json or /api/axl/...
RequireAuthProtected ==
  /\ checkAuthentication("request")
  /\ UNCHANGED <<authVars, docVars, classifyVars, routeVars, execVars,
                 now, axlConfigured, lastCheckTime, timerDue>>

\* seq without its i-th element
Without(seq, i) == SubSeq(seq, 1, i - 1) \o SubSeq(seq, i + 1, Len(seq))

\* testAuthentication settles for one of the waiting calls: lines 39-44
\* when it resolves, lines 45-50 when it rejects
TestAuthenticationSettles ==
  /\ \E i \in DOMAIN checks :
       /\ \/ /\ isAuthenticated' = TRUE
             /\ authError' = "null"
             /\ lastCheckTime' = checks[i].at
             /\ gate' = IF checks[i].by = "request" THEN "next" ELSE gate
          \/ \E m \in AuthFailures :
               /\ isAuthenticated' = FALSE
               /\ authError' = IF m # "" THEN m ELSE UnknownError
               /\ gate' = IF checks[i].by = "request" THEN "401" ELSE gate
               /\ UNCHANGED lastCheckTime
       /\ checks' = Without(checks, i)
  /\ UNCHANGED <<authVars, docVars, classifyVars, routeVars, execVars,
                 now, axlConfigured, timerDue, lastCall, callBit>>

\* a minute passes
Tick ==
  /\ now < Boot + MaxElapsed
  /\ now' = now + 1
  /\ UNCHANGED <<authVars, docVars, classifyVars, routeVars, execVars,
                 axlConfigured, isAuthenticated, authError, lastCheckTime,
                 timerDue, checks, lastCall, callBit, gate>>

NextSession ==
  \/ StartAuthenticationCheck
  \/ PeriodicCheck
  \/ RequireAuthHealth
  \/ RequireAuthOpen
  \/ RequireAuthProtected
  \/ TestAuthenticationSettles
  \/ Tick

SpecSession == InitSession /\ [][NextSession]_vars

\* a step in which checkAuthentication is called
CallStep == callBit' # callBit

\* C30, the calls: a call of checkAuthentication answers true from the
\* cache, without a backend call and without touching the state, exactly
\* when isAuthenticated is true and less than five minutes have passed
\* since lastCheckTime; every other call starts a backend test or, with the
\* configuration missing, rejects and records the failure, so no failed
\* result is answered from the cache
C30_CallStep ==
  CallStep =>
    IF isAuthenticated /\ now < lastCheckTime + AUTH_CACHE_DURATION
    THEN /\ lastCall' = "cached"
         /\ UNCHANGED <<isAuthenticated, authError, lastCheckTime, checks>>
    ELSE IF axlConfigured
    THEN /\ lastCall' = "backend"
         /\ Len(checks') = Len(checks) + 1
         /\ checks'[Len(checks')].at = now
    ELSE /\ lastCall' = "rejected"
         /\ ~isAuthenticated'
         /\ authError' = MissingConfiguration
         /\ checks' = checks

\* C30, the state: whenever isAuthenticated is true, authError is null
C30_NoErrorWhileAuthenticated == isAuthenticated => authError = "null"

\* C30: under any interleaving of periodic checks, request-triggered
\* checks and /health requests, checkAuthentication answers from the cache
\* exactly when isAuthenticated is true and lastCheckTime is less than five
\* minutes old, calls the backend or rejects for missing configuration in
\* every other state, and isAuthenticated = true implies authError = null
C30_CachedExactlyWhenFresh ==
  /\ []C30_NoErrorWhileAuthenticated
  /\ [][C30_CallStep]_vars

\* a request was let through from the cache some minutes after the check
\* that authenticated, while another test was still waiting
C30_Witness ==
  /\ lastCall = "cached"
  /\ gate = "next"
  /\ isAuthenticated
  /\ lastCheckTime > 0
  /\ now > lastCheckTime
  /\ now < lastCheckTime + AUTH_CACHE_DURATION
  /\ checks # <<>>

====
